---------------------------- MODULE Spec2Model ----------------------------
(***************************************************************************)
(* Session engine of the chat bot (src/bot.py): the point ledger, the      *)
(* word / image / trivia / word-chain sessions kept per channel, and the   *)
(* debate moderator with its background turn runner.                       *)
(*                                                                         *)
(* The bot runs on one cooperative event loop.  A handler runs without     *)
(* interruption from one await to the next, so every action below is the   *)
(* code between two suspension points of one coroutine.                    *)
(***************************************************************************)
EXTENDS Integers, Sequences, FiniteSets, TLC

VARIABLES
    game_data,            \* the ledger: [points, cooldowns], keyed by user id
    disk,                 \* content of game_data.json
    now,                  \* the clock, in seconds
    tebak_kata_active,    \* channel -> [answer, prompt_id]
    tebak_gambar_active,  \* channel -> [answer, prompt_id]
    trivia_active,        \* channel -> question of TRIVIA_BANK
    sambung_kata_active,  \* channel -> [last, used]
    pending,              \* start handlers suspended in their prompt send
    next_msg_id,          \* id the platform gives to the next prompt message
    debate_sessions,      \* channel -> reference to a DebateSession object
    debate_objs,          \* the DebateSession objects, by reference
    debate_tasks,         \* channel -> reference to a runner task
    task_objs,            \* the runner tasks, by reference
    save_failures,        \* how many snapshot writes have failed so far
    bj,                   \* the blackjack round in play, with its view
    qq,                   \* the QQ round last dealt
    probe,                \* a helper function under call: input, locals, result
    resp                  \* what the last handler step answered / returned

vars == <<game_data, disk, now, tebak_kata_active, tebak_gambar_active,
          trivia_active, sambung_kata_active, pending, next_msg_id,
          debate_sessions, debate_objs, debate_tasks, task_objs,
          save_failures, bj, qq, probe, resp>>

ledgerVars == <<game_data, disk, save_failures>>
gameVars   == <<tebak_kata_active, tebak_gambar_active, trivia_active,
                sambung_kata_active, pending, next_msg_id>>
debateVars == <<debate_sessions, debate_objs, debate_tasks, task_objs>>
cardVars   == <<bj, qq, probe>>

(***************************************************************************)
(* Bounds of the model.                                                    *)
(***************************************************************************)
MaxPoints       == 30   \* balances are followed up to this value
MaxSaveFailures == 1    \* snapshot writes that may fail in one behaviour

Users    == {1, 2, 3}
Channels == {1, 2}

Max(a, b) == IF a >= b THEN a ELSE b
Min(a, b) == IF a <= b THEN a ELSE b

NoResp == [op |-> "none"]

(***************************************************************************)
(* Economy ledger                                                          *)
(***************************************************************************)
EmptyMap == [x \in {} |-> 0]

\* load_game_data when game_data.json does not exist
EmptyLedger == [points |-> EmptyMap, cooldowns |-> EmptyMap]

\* dict.setdefault(k, v)
SetDefault(d, k, v) == IF k \in DOMAIN d THEN d ELSE (k :> v) @@ d

\* d[k] = v
Put(d, k, v) == (k :> v) @@ d

\* del d[k]
Del(d, k) == [x \in (DOMAIN d) \ {k} |-> d[x]]

ensure_user_data(gd, uid) ==
    [points    |-> SetDefault(gd.points, uid, 0),
     cooldowns |-> SetDefault(gd.cooldowns, uid, EmptyMap)]

\* save_game_data: the write may fail at open (file untouched) or in
\* json.dump (file truncated by open('w')); both failures are swallowed.
SaveOutcomes == {"ok", "open_failed", "dump_failed"}
save_game_data(gd, old_disk, outcome) ==
    CASE outcome = "ok"          -> [kind |-> "json", data |-> gd]
      [] outcome = "open_failed" -> old_disk
      [] outcome = "dump_failed" -> [kind |-> "partial", data |-> EmptyLedger]

\* get_points: <<ledger after the call, returned value>>
get_points(gd, uid) ==
    LET g1 == ensure_user_data(gd, uid)
    IN  <<g1, g1.points[uid]>>

add_points_wrap(gd, uid, amount) ==
    LET g1 == ensure_user_data(gd, uid)
        g2 == [g1 EXCEPT !.points = Put(g1.points, uid, g1.points[uid] + amount)]
    IN  <<g2, g2.points[uid]>>

\* add_points, up to its save: <<ledger after the call, returned value>>
add_points(gd, uid, amount) ==
    LET g1 == ensure_user_data(gd, uid)
        g2 == [g1 EXCEPT !.points =
                   Put(g1.points, uid, Max(0, g1.points[uid] + amount))]
    IN  <<g2, g2.points[uid]>>

transfer_points_noclamp(gd, from_uid, to_uid, amount) ==
    LET g1   == ensure_user_data(ensure_user_data(gd, from_uid), to_uid)
        amt  == Max(0, amount)
        p1   == Put(g1.points, from_uid, g1.points[from_uid] - amt)
        p2   == Put(p1, to_uid, p1[to_uid] + amt)
    IN  <<[g1 EXCEPT !.points = p2], amt>>

transfer_points_creditfull(gd, from_uid, to_uid, amount) ==
    LET g1   == ensure_user_data(ensure_user_data(gd, from_uid), to_uid)
        amt  == Max(0, amount)
        real == Min(amt, g1.points[from_uid])
        p1   == Put(g1.points, from_uid, g1.points[from_uid] - real)
        p2   == Put(p1, to_uid, p1[to_uid] + amt)
    IN  <<[g1 EXCEPT !.points = p2], real>>

transfer_points_signed(gd, from_uid, to_uid, amount) ==
    LET g1   == ensure_user_data(ensure_user_data(gd, from_uid), to_uid)
        real == Min(amount, g1.points[from_uid])
        p1   == Put(g1.points, from_uid, g1.points[from_uid] - real)
        p2   == Put(p1, to_uid, p1[to_uid] + real)
    IN  <<[g1 EXCEPT !.points = p2], real>>

\* transfer_points, up to its save: <<ledger after the call, returned value>>
transfer_points(gd, from_uid, to_uid, amount) ==
    LET g1   == ensure_user_data(ensure_user_data(gd, from_uid), to_uid)
        amt  == Max(0, amount)
        real == Min(amt, g1.points[from_uid])
        p1   == Put(g1.points, from_uid, g1.points[from_uid] - real)
        p2   == Put(p1, to_uid, p1[to_uid] + real)
    IN  <<[g1 EXCEPT !.points = p2], real>>

\* Amounts the ledger calls are tried with
AddAmounts      == {-1000, -10, 0, 10, 30}
TransferAmounts == {-10, 0, 10, 1000}

\* the save that ends a mutating ledger call, with its outcome
Save(gd) ==
    \E o \in SaveOutcomes :
        /\ o # "ok" => save_failures < MaxSaveFailures
        /\ disk' = save_game_data(gd, disk, o)
        /\ save_failures' = IF o = "ok" THEN save_failures ELSE save_failures + 1

\* balance of an account as GetBalance would report it (unseen = 0)
Balance(gd, uid) == IF uid \in DOMAIN gd.points THEN gd.points[uid] ELSE 0

\* what a handler answers; recorded unless the specification leaves the
\* answers unobserved
Unobserved == [op |-> "unobserved"]
Reply(r) == resp' = IF resp = Unobserved THEN resp ELSE r

GetPoints(u) ==
    LET r == get_points(game_data, u)
    IN  /\ game_data' = r[1]
        /\ Reply([op |-> "get_points", user |-> u, ret |-> r[2]])
        /\ UNCHANGED <<disk, save_failures, now, gameVars, debateVars, cardVars>>

\* an add_points that takes its change back when the write fails
AddPointsOrUndo(u, amount, cap) ==
    LET r == add_points(game_data, u, amount)
    IN  /\ r[2] <= cap
        /\ Save(r[1])
        /\ game_data' = IF save_failures' = save_failures THEN r[1] ELSE game_data
        /\ Reply([op |-> "add_points", user |-> u, amount |-> amount,
                  before |-> game_data, ret |-> r[2]])
        /\ UNCHANGED <<now, gameVars, debateVars, cardVars>>

\* balances are followed up to cap
AddPointsUpTo(u, amount, cap) ==
    LET r == add_points(game_data, u, amount)
    IN  /\ r[2] <= cap
        /\ game_data' = r[1]
        /\ Save(r[1])
        /\ Reply([op |-> "add_points", user |-> u, amount |-> amount,
                  before |-> game_data, ret |-> r[2]])
        /\ UNCHANGED <<now, gameVars, debateVars, cardVars>>

AddPoints(u, amount) == AddPointsUpTo(u, amount, MaxPoints)

TransferPointsUpTo(f, t, amount, cap) ==
    LET r == transfer_points(game_data, f, t, amount)
    IN  /\ \A u \in DOMAIN r[1].points : r[1].points[u] <= cap
        /\ game_data' = r[1]
        /\ Save(r[1])
        /\ Reply([op |-> "transfer_points", from |-> f, to |-> t,
                  amount |-> amount, before |-> game_data, ret |-> r[2]])
        /\ UNCHANGED <<now, gameVars, debateVars, cardVars>>

TransferPoints(f, t, amount) == TransferPointsUpTo(f, t, amount, MaxPoints)


(***************************************************************************)
(* Text helpers: a str is a sequence of one-character strings              *)
(***************************************************************************)
UpperCase == <<"A", "B", "C", "D", "E", "F", "G", "H", "I", "J", "K", "L", "M", 
              "N", "O", "P", "Q", "R", "S", "T", "U", "V", "W", "X", "Y", "Z">>
LowerCase == <<"a", "b", "c", "d", "e", "f", "g", "h", "i", "j", "k", "l", "m", 
              "n", "o", "p", "q", "r", "s", "t", "u", "v", "w", "x", "y", "z">>

\* str.lower(), one character
LowerChar(c) ==
    IF \E i \in 1..Len(UpperCase) : UpperCase[i] = c
    THEN LowerCase[CHOOSE i \in 1..Len(UpperCase) : UpperCase[i] = c]
    ELSE c

\* str.upper(), one character
UpperChar(c) ==
    IF \E i \in 1..Len(LowerCase) : LowerCase[i] = c
    THEN UpperCase[CHOOSE i \in 1..Len(LowerCase) : LowerCase[i] = c]
    ELSE c

Lower(w) == [i \in 1..Len(w) |-> LowerChar(w[i])]
Upper(w) == [i \in 1..Len(w) |-> UpperChar(w[i])]

IsSpace(c) == c = " "

\* str.strip(): drop the leading and the trailing whitespace
Strip(w) ==
    LET keep == {i \in 1..Len(w) : ~IsSpace(w[i])}
    IN  IF keep = {} THEN <<>>
        ELSE LET lo == CHOOSE i \in keep : \A j \in keep : i <= j
                 hi == CHOOSE i \in keep : \A j \in keep : i >= j
             IN  SubSeq(w, lo, hi)

(***************************************************************************)
(* Debate referee                                                          *)
(***************************************************************************)
MaxSessions   == 2    \* DebateSession objects alive at the same time
MaxTasks      == 2    \* runner tasks that exist at the same time

MinTurnSeconds == 10
MinRounds      == 1

TickSteps         == {5, 10}
TurnSecondsInputs == {5, 10}
u_pro    == <<"p", "r", "o">>
u_kontra == <<" ", "K", "o", "n", "t", "r", "a", " ">>
u_netral == <<"n", "e", "t", "r", "a", "l">>
STR_pro    == <<"p", "r", "o">>
STR_kontra == <<"k", "o", "n", "t", "r", "a">>

SessionRefs == 1..MaxSessions
TaskRefs    == 1..MaxTasks

\* DebateSession(...) as debat_mulai builds it; topic and guild are not read
\* by any decision and are left out
DebateSession(ch, turn_seconds, rounds) ==
    [channel_id |-> ch, turn_seconds |-> turn_seconds, rounds |-> rounds,
     pro |-> <<>>, kontra |-> <<>>, points |-> <<>>, running |-> FALSE]

\* the place of a DebateSession object nothing refers to (freed memory)
FreedSession ==
    [channel_id |-> 0, turn_seconds |-> 0, rounds |-> 0,
     pro |-> <<>>, kontra |-> <<>>, points |-> <<>>, running |-> FALSE]

\* the place of a task object nothing refers to
FreedTask ==
    [session |-> 0, status |-> "free", pc |-> "end",
     r |-> 0, side |-> 0, idx |-> 0, sleep_for |-> 0, slept |-> 0, log |-> <<>>,
     by |-> "none", channel_id |-> 0]

InSeq(x, q) == \E i \in 1..Len(q) : q[i] = x

\* a remove that drops nothing
RemoveNothing(q, x) == q

\* list.remove(x): drops the first occurrence
Remove(q, x) ==
    LET i == CHOOSE k \in 1..Len(q) : q[k] = x /\ \A j \in 1..(k - 1) : q[j] # x
    IN  SubSeq(q, 1, i - 1) \o SubSeq(q, i + 1, Len(q))

_side_of_user_or_kontra(s, uid) ==
    IF InSeq(uid, s.pro) THEN "PRO" ELSE "KONTRA"

_side_of_user(s, uid) ==
    IF InSeq(uid, s.pro) THEN "PRO"
    ELSE IF InSeq(uid, s.kontra) THEN "KONTRA"
    ELSE "None"

\* asyncio.Task.done()
TaskDone(T) == T.status = "done"

\* a task that has been created and is neither finished nor cancelled
TaskAlive(T) == T.status = "active"

\* a task whose coroutine still exists (cancel() may have been called on it)
TaskPending(T) == T.status \in {"active", "cancelling"}

\* asyncio.create_task(debate_runner(s)): the coroutine has not run yet
NewTask(sid, ch) ==
    [session |-> sid, status |-> "active", pc |-> "start",
     r |-> 0, side |-> 0, idx |-> 0, sleep_for |-> 0, slept |-> 0, log |-> <<>>,
     by |-> "none", channel_id |-> ch]

\* a task that is over (returned, raised or cancelled): its coroutine frame
\* is gone; the code only ever asks a task whether it is done()
EndTask(T) ==
    [session |-> 0, status |-> "done", pc |-> "end",
     r |-> 0, side |-> 0, idx |-> 0, sleep_for |-> 0, slept |-> 0, log |-> <<>>,
     by |-> "none", channel_id |-> 0]

\* cancel() without effect
CancelIgnored(tasks, t, by) == tasks

\* task.cancel(): the CancelledError is thrown into the coroutine when the
\* loop next runs the task; debate_runner catches nothing, so no more of its
\* code runs; the frame keeps its reference to the session until the error
\* is delivered, and of the place where the coroutine is suspended only this
\* is kept: in asyncio.sleep, or elsewhere.
\* by: the handler that called cancel()
Cancel(tasks, t, by) ==
    IF tasks[t].status = "cancelling" THEN tasks
    ELSE [tasks EXCEPT ![t] = [EndTask(@) EXCEPT !.status = "cancelling",
                                                 !.channel_id = tasks[t].channel_id,
                                                 !.session = tasks[t].session,
                                                 !.pc = IF tasks[t].pc = "sleep"
                                                        THEN "sleep"
                                                        ELSE "other",
                                                 !.by = by]]

\* no look at the channel's previous task
CancelNothing(tasks, ch, by) == tasks

\* cancel the registered task of every channel
CancelEveryLive(tasks, ch, by) ==
    [t \in TaskRefs |->
        IF \E c \in DOMAIN debate_tasks : debate_tasks[c] = t /\ ~TaskDone(tasks[t])
        THEN Cancel(tasks, t, by)[t]
        ELSE tasks[t]]

\* old_task = debate_tasks.get(ch); if old_task and not old_task.done(): cancel
CancelIfLive(tasks, ch, by) ==
    IF ch \in DOMAIN debate_tasks /\ ~TaskDone(tasks[debate_tasks[ch]])
    THEN Cancel(tasks, debate_tasks[ch], by)
    ELSE tasks

\* reference counting: a session object lives while the registry or the
\* coroutine of a pending task refers to it; a task object lives while it is
\* pending or debate_tasks refers to it
SessionReferenced(sid, smap, tasks) ==
    \/ \E ch \in DOMAIN smap : smap[ch] = sid
    \/ \E t \in TaskRefs : tasks[t].session = sid /\ TaskPending(tasks[t])

TaskReferenced(t, tmap, tasks) ==
    \/ TaskPending(tasks[t])
    \/ tasks[t].status = "done" /\ \E ch \in DOMAIN tmap : tmap[ch] = t

FreeSessionRefs == {sid \in SessionRefs :
                       ~SessionReferenced(sid, debate_sessions, task_objs)}
FreeTaskRefs    == {t \in TaskRefs : ~TaskReferenced(t, debate_tasks, task_objs)}

\* game_data = load_game_data(): the file is absent, or holds an earlier ledger
StoredLedger == [points |-> (1 :> 30), cooldowns |-> (1 :> EmptyMap)]
InitLedgers  == {EmptyLedger, StoredLedger}

\* no card round dealt, no helper function under call
NoGame  == [state |-> "none"]
NoProbe == [fn |-> "none"]

\* the state after the module is loaded, but for the helper under call
InitBase(gd, failures, r) ==
    /\ game_data = gd
    /\ disk = IF gd = EmptyLedger THEN [kind |-> "missing", data |-> EmptyLedger]
              ELSE [kind |-> "json", data |-> gd]
    /\ save_failures = failures
    /\ now = 0
    /\ tebak_kata_active = EmptyMap
    /\ tebak_gambar_active = EmptyMap
    /\ trivia_active = EmptyMap
    /\ sambung_kata_active = EmptyMap
    /\ pending = <<>>
    /\ next_msg_id = 1
    /\ debate_sessions = EmptyMap
    /\ debate_objs = [sid \in SessionRefs |-> FreedSession]
    /\ debate_tasks = EmptyMap
    /\ task_objs = [t \in TaskRefs |-> FreedTask]
    /\ bj = NoGame
    /\ qq = NoGame
    /\ resp = r

InitWith(gd, failures, r) ==
    /\ InitBase(gd, failures, r)
    /\ probe = NoProbe

Init == \E gd \in InitLedgers : InitWith(gd, 0, NoResp)

NextLedger ==
    \/ \E u \in Users : GetPoints(u)
    \/ \E u \in Users, a \in AddAmounts : AddPoints(u, a)
    \/ \E f \in Users, t \in Users, a \in TransferAmounts : TransferPoints(f, t, a)

SpecLedger == Init /\ [][NextLedger]_vars

Lowest(S) == CHOOSE x \in S : \A y \in S : x <= y

\* the debate state after a step, unreferenced objects freed
Commit(objs, smap, tmap, tasks) ==
    /\ debate_sessions' = smap
    /\ debate_tasks' = tmap
    /\ task_objs' = [t \in TaskRefs |->
                        IF TaskReferenced(t, tmap, tasks) THEN tasks[t]
                        ELSE FreedTask]
    /\ debate_objs' = [sid \in SessionRefs |->
                          IF SessionReferenced(sid, smap, tasks) THEN objs[sid]
                          ELSE FreedSession]

SideName(k) == IF k = 1 THEN "PRO" ELSE "KONTRA"
Lineup(s, k) == IF k = 1 THEN s.pro ELSE s.kontra

\* the nested for loops of debate_runner: the first turn at or after the
\* start of side k of round r; r > rounds when the loops are exhausted
RECURSIVE FirstFrom(_, _, _)
FirstFrom(s, r, k) ==
    IF r > s.rounds THEN [r |-> r, side |-> 1, idx |-> 0]
    ELSE IF Len(Lineup(s, k)) >= 1 THEN [r |-> r, side |-> k, idx |-> 1]
    ELSE IF k = 1 THEN FirstFrom(s, r, 2)
    ELSE FirstFrom(s, r + 1, 1)

\* a loop that gives each side's first speaker only
NextPosFirstSpeakerOnly(s, r, k, idx) ==
    IF k = 1 THEN FirstFrom(s, r, 2) ELSE FirstFrom(s, r + 1, 1)

\* the turn after turn (r, k, idx)
NextPos(s, r, k, idx) ==
    IF idx + 1 <= Len(Lineup(s, k)) THEN [r |-> r, side |-> k, idx |-> idx + 1]
    ELSE IF k = 1 THEN FirstFrom(s, r, 2)
    ELSE FirstFrom(s, r + 1, 1)

DebatMulai(ch, turn_seconds, rounds) ==
    /\ IF turn_seconds < MinTurnSeconds \/ rounds < MinRounds
       THEN /\ Reply([op |-> "debat_mulai", ch |-> ch, result |-> "invalid"])
            /\ UNCHANGED debateVars
       ELSE /\ FreeSessionRefs # {}
            /\ LET sid == Lowest(FreeSessionRefs)
               IN  Commit([debate_objs EXCEPT
                             ![sid] = DebateSession(ch, turn_seconds, rounds)],
                          Put(debate_sessions, ch, sid),
                          debate_tasks, task_objs)
            /\ Reply([op |-> "debat_mulai", ch |-> ch, result |-> "created"])
    /\ UNCHANGED <<ledgerVars, gameVars, cardVars, now>>

DebatJoinAnytime(ch, uid, side_in) ==
    /\ IF ch \notin DOMAIN debate_sessions
       THEN /\ Reply([op |-> "debat_join", ch |-> ch, result |-> "no_session"])
            /\ UNCHANGED debateVars
       ELSE LET sid  == debate_sessions[ch]
                s    == debate_objs[sid]
                side == Strip(Lower(side_in))
            IN  IF side \notin {STR_pro, STR_kontra}
                THEN /\ Reply([op |-> "debat_join", ch |-> ch, result |-> "bad_side"])
                     /\ UNCHANGED debateVars
                ELSE LET pro1    == IF InSeq(uid, s.pro) THEN Remove(s.pro, uid) ELSE s.pro
                         kontra1 == IF InSeq(uid, s.kontra) THEN Remove(s.kontra, uid)
                                    ELSE s.kontra
                     IN  /\ debate_objs' =
                               [debate_objs EXCEPT
                                  ![sid].pro = IF side = STR_pro THEN Append(pro1, uid)
                                               ELSE pro1,
                                  ![sid].kontra = IF side = STR_pro THEN kontra1
                                                  ELSE Append(kontra1, uid)]
                         /\ Reply([op |-> "debat_join", ch |-> ch, result |-> "joined"])
                         /\ UNCHANGED <<debate_sessions, debate_tasks, task_objs>>
    /\ UNCHANGED <<ledgerVars, gameVars, cardVars, now>>

DebatJoinLeavesFirst(ch, uid, side_in) ==
    /\ IF ch \notin DOMAIN debate_sessions
       THEN /\ Reply([op |-> "debat_join", ch |-> ch, result |-> "no_session"])
            /\ UNCHANGED debateVars
       ELSE LET sid  == debate_sessions[ch]
                s    == debate_objs[sid]
                side == Strip(Lower(side_in))
                pro1    == IF InSeq(uid, s.pro) THEN Remove(s.pro, uid) ELSE s.pro
                kontra1 == IF InSeq(uid, s.kontra) THEN Remove(s.kontra, uid)
                           ELSE s.kontra
            IN  IF s.running
                THEN /\ Reply([op |-> "debat_join", ch |-> ch, result |-> "running"])
                     /\ UNCHANGED debateVars
                ELSE IF side \notin {STR_pro, STR_kontra}
                THEN /\ debate_objs' = [debate_objs EXCEPT ![sid].pro = pro1,
                                                            ![sid].kontra = kontra1]
                     /\ Reply([op |-> "debat_join", ch |-> ch, result |-> "bad_side"])
                     /\ UNCHANGED <<debate_sessions, debate_tasks, task_objs>>
                ELSE /\ debate_objs' =
                           [debate_objs EXCEPT
                              ![sid].pro = IF side = STR_pro THEN Append(pro1, uid)
                                           ELSE pro1,
                              ![sid].kontra = IF side = STR_pro THEN kontra1
                                              ELSE Append(kontra1, uid)]
                     /\ Reply([op |-> "debat_join", ch |-> ch, result |-> "joined"])
                     /\ UNCHANGED <<debate_sessions, debate_tasks, task_objs>>
    /\ UNCHANGED <<ledgerVars, gameVars, cardVars, now>>

\* !debat_join <side>
DebatJoin(ch, uid, side_in) ==
    /\ IF ch \notin DOMAIN debate_sessions
       THEN /\ Reply([op |-> "debat_join", ch |-> ch, result |-> "no_session"])
            /\ UNCHANGED debateVars
       ELSE LET sid  == debate_sessions[ch]
                s    == debate_objs[sid]
                side == Strip(Lower(side_in))
            IN  IF s.running
                THEN /\ Reply([op |-> "debat_join", ch |-> ch, result |-> "running"])
                     /\ UNCHANGED debateVars
                ELSE IF side \notin {STR_pro, STR_kontra}
                THEN /\ Reply([op |-> "debat_join", ch |-> ch, result |-> "bad_side"])
                     /\ UNCHANGED debateVars
                ELSE LET pro1    == IF InSeq(uid, s.pro) THEN Remove(s.pro, uid) ELSE s.pro
                         kontra1 == IF InSeq(uid, s.kontra) THEN Remove(s.kontra, uid)
                                    ELSE s.kontra
                     IN  /\ debate_objs' =
                               [debate_objs EXCEPT
                                  ![sid].pro = IF side = STR_pro THEN Append(pro1, uid)
                                               ELSE pro1,
                                  ![sid].kontra = IF side = STR_pro THEN kontra1
                                                  ELSE Append(kontra1, uid)]
                         /\ Reply([op |-> "debat_join", ch |-> ch, result |-> "joined"])
                         /\ UNCHANGED <<debate_sessions, debate_tasks, task_objs>>
    /\ UNCHANGED <<ledgerVars, gameVars, cardVars, now>>

DebatStartAnyRoster(ch) ==
    /\ IF ch \notin DOMAIN debate_sessions
       THEN /\ Reply([op |-> "debat_start", ch |-> ch, result |-> "no_session"])
            /\ UNCHANGED debateVars
       ELSE LET sid == debate_sessions[ch]
                s   == debate_objs[sid]
            IN  IF s.running
                THEN /\ Reply([op |-> "debat_start", ch |-> ch, result |-> "running"])
                     /\ UNCHANGED debateVars
                ELSE /\ FreeTaskRefs # {}
                     /\ LET t == Lowest(FreeTaskRefs)
                        IN  Commit(debate_objs, debate_sessions,
                                   Put(debate_tasks, ch, t),
                                   [CancelIfLive(task_objs, ch, "debat_start") EXCEPT
                                      ![t] = NewTask(sid, ch)])
                     /\ Reply([op |-> "debat_start", ch |-> ch, result |-> "started"])
    /\ UNCHANGED <<ledgerVars, gameVars, cardVars, now>>

\* !debat_start
DebatStart(ch) ==
    /\ IF ch \notin DOMAIN debate_sessions
       THEN /\ Reply([op |-> "debat_start", ch |-> ch, result |-> "no_session"])
            /\ UNCHANGED debateVars
       ELSE LET sid == debate_sessions[ch]
                s   == debate_objs[sid]
            IN  IF s.running
                THEN /\ Reply([op |-> "debat_start", ch |-> ch, result |-> "running"])
                     /\ UNCHANGED debateVars
                ELSE IF s.pro = <<>> \/ s.kontra = <<>>
                THEN /\ Reply([op |-> "debat_start", ch |-> ch, result |-> "empty_side"])
                     /\ UNCHANGED debateVars
                ELSE /\ FreeTaskRefs # {}
                     /\ LET t == Lowest(FreeTaskRefs)
                        IN  Commit(debate_objs, debate_sessions,
                                   Put(debate_tasks, ch, t),
                                   [CancelIfLive(task_objs, ch, "debat_start") EXCEPT
                                      ![t] = NewTask(sid, ch)])
                     /\ Reply([op |-> "debat_start", ch |-> ch, result |-> "started"])
    /\ UNCHANGED <<ledgerVars, gameVars, cardVars, now>>

\* a stop that only drops the registry entry
DebatStopUnregisters(ch) ==
    /\ IF ch \notin DOMAIN debate_sessions
       THEN /\ Reply([op |-> "debat_stop", ch |-> ch, result |-> "no_session"])
            /\ UNCHANGED debateVars
       ELSE /\ Commit(debate_objs, Del(debate_sessions, ch), debate_tasks, task_objs)
            /\ Reply([op |-> "debat_stop", ch |-> ch, result |-> "stopped"])
    /\ UNCHANGED <<ledgerVars, gameVars, cardVars, now>>

DebatStop(ch) ==
    /\ IF ch \notin DOMAIN debate_sessions
       THEN /\ Reply([op |-> "debat_stop", ch |-> ch, result |-> "no_session"])
            /\ UNCHANGED debateVars
       ELSE LET sid == debate_sessions[ch]
            IN  /\ Commit([debate_objs EXCEPT ![sid].running = FALSE],
                          Del(debate_sessions, ch), debate_tasks,
                          CancelIfLive(task_objs, ch, "debat_stop"))
                /\ Reply([op |-> "debat_stop", ch |-> ch, result |-> "stopped"])
    /\ UNCHANGED <<ledgerVars, gameVars, cardVars, now>>

(***************************************************************************)
(* debate_runner, one action per stretch of code between two awaits        *)
(***************************************************************************)
RunnerResp(t, what) == [op |-> "debate_runner", task |-> t, result |-> what]

\* the head of the innermost loop at turn pos, or the code after the loops
LoopStep(t, pos) ==
    LET T   == task_objs[t]
        sid == T.session
        s   == debate_objs[sid]
    IN  IF pos.r > s.rounds
        THEN \* session.running = False; await channel.send('Debat selesai ...')
             /\ debate_objs' = [debate_objs EXCEPT ![sid].running = FALSE]
             /\ task_objs' = [task_objs EXCEPT ![t].pc = "send_done"]
             /\ Reply(RunnerResp(t, "completion"))
             /\ UNCHANGED <<debate_sessions, debate_tasks>>
        ELSE IF ~s.running
        THEN \* if not session.running: return
             /\ Commit(debate_objs, debate_sessions, debate_tasks,
                       [task_objs EXCEPT ![t] = EndTask(T)])
             /\ Reply(RunnerResp(t, "flag_cleared"))
        ELSE \* await channel.send('Round r/rounds Giliran side: uid')
             /\ task_objs' =
                   [task_objs EXCEPT
                      ![t].pc = "send_turn",
                      ![t].r = pos.r, ![t].side = pos.side, ![t].idx = pos.idx,
                      ![t].log = Append(@, <<pos.r, SideName(pos.side),
                                             Lineup(s, pos.side)[pos.idx]>>)]
             /\ Reply(RunnerResp(t, "turn"))
             /\ UNCHANGED <<debate_objs, debate_sessions, debate_tasks>>

\* a runner that sets the flag before it looks for the channel
RunnerBeginFlagFirst(t, resolved) ==
    LET T == task_objs[t]
    IN  /\ T.status = "active" /\ T.pc = "start"
        /\ IF ~resolved
           THEN /\ Commit([debate_objs EXCEPT ![T.session].running = TRUE],
                          debate_sessions, debate_tasks,
                          [task_objs EXCEPT ![t] = EndTask(T)])
                /\ Reply(RunnerResp(t, "no_channel"))
           ELSE /\ debate_objs' = [debate_objs EXCEPT ![T.session].running = TRUE]
                /\ task_objs' = [task_objs EXCEPT ![t].pc = "send_open"]
                /\ Reply(RunnerResp(t, "opening"))
                /\ UNCHANGED <<debate_sessions, debate_tasks>>
        /\ UNCHANGED <<ledgerVars, gameVars, cardVars, now>>

\* the task's first step: up to the await of the opening message;
\* resolved: whether bot.get_channel finds the channel
RunnerBegin(t, resolved) ==
    LET T == task_objs[t]
    IN  /\ T.status = "active" /\ T.pc = "start"
        /\ IF ~resolved
           THEN /\ Commit(debate_objs, debate_sessions, debate_tasks,
                          [task_objs EXCEPT ![t] = EndTask(T)])
                /\ Reply(RunnerResp(t, "no_channel"))
           ELSE /\ debate_objs' = [debate_objs EXCEPT ![T.session].running = TRUE]
                /\ task_objs' = [task_objs EXCEPT ![t].pc = "send_open"]
                /\ Reply(RunnerResp(t, "opening"))
                /\ UNCHANGED <<debate_sessions, debate_tasks>>
        /\ UNCHANGED <<ledgerVars, gameVars, cardVars, now>>

\* an awaited channel.send returns, and the code runs on to the next await
RunnerSent(t) ==
    LET T == task_objs[t]
        s == debate_objs[T.session]
    IN  /\ T.status = "active"
        /\ \/ /\ T.pc = "send_open"
              /\ LoopStep(t, FirstFrom(s, 1, 1))
           \/ /\ T.pc = "send_turn"
              \* await asyncio.sleep(session.turn_seconds)
              /\ task_objs' = [task_objs EXCEPT ![t].pc = "sleep",
                                                 ![t].sleep_for = s.turn_seconds,
                                                 ![t].slept = 0]
              /\ Reply(RunnerResp(t, "sleep"))
              /\ UNCHANGED <<debate_objs, debate_sessions, debate_tasks>>
           \/ /\ T.pc = "send_done"
              /\ Commit(debate_objs, debate_sessions, debate_tasks,
                        [task_objs EXCEPT ![t] = EndTask(T)])
              /\ Reply(RunnerResp(t, "returned"))
        /\ UNCHANGED <<ledgerVars, gameVars, cardVars, now>>

\* an awaited channel.send raises: the exception ends the task
RunnerSendFails(t) ==
    LET T == task_objs[t]
    IN  /\ T.status = "active"
        /\ T.pc \in {"send_open", "send_turn", "send_done"}
        /\ Commit(debate_objs, debate_sessions, debate_tasks,
                  [task_objs EXCEPT ![t] = EndTask(T)])
        /\ Reply(RunnerResp(t, "send_failed"))
        /\ UNCHANGED <<ledgerVars, gameVars, cardVars, now>>

\* asyncio.sleep is over once the loop's clock has advanced by the delay:
\* the next iteration of the loops
RunnerWake(t) ==
    LET T == task_objs[t]
        s == debate_objs[T.session]
    IN  /\ T.status = "active" /\ T.pc = "sleep"
        /\ T.slept >= T.sleep_for
        /\ LoopStep(t, NextPos(s, T.r, T.side, T.idx))
        /\ UNCHANGED <<ledgerVars, gameVars, cardVars, now>>

\* the loop runs a task on which cancel() was called: CancelledError is
\* raised at its await (or before its first step) and nothing catches it
RunnerCancelled(t) ==
    LET T == task_objs[t]
    IN  /\ T.status = "cancelling"
        /\ Commit(debate_objs, debate_sessions, debate_tasks,
                  [task_objs EXCEPT ![t] = EndTask(T)])
        /\ Reply(RunnerResp(t, "cancelled"))
        /\ UNCHANGED <<ledgerVars, gameVars, cardVars, now>>

\* the event loop's clock advances by d seconds while a runner sleeps
LoopTick(d) ==
    /\ \E t \in TaskRefs :
          /\ task_objs[t].status = "active"
          /\ task_objs[t].pc = "sleep"
          /\ task_objs[t].slept < task_objs[t].sleep_for
    /\ task_objs' = [t \in TaskRefs |->
                        IF task_objs[t].status = "active" /\ task_objs[t].pc = "sleep"
                        THEN [task_objs[t] EXCEPT
                                !.slept = Min(@ + d, task_objs[t].sleep_for)]
                        ELSE task_objs[t]]
    /\ Reply([op |-> "tick"])
    /\ UNCHANGED <<ledgerVars, gameVars, cardVars, debate_sessions, debate_objs,
                   debate_tasks, now>>

\* the channel a runner task works for: session.channel_id
ChannelOf(objs, T) == T.channel_id

\* the debate commands sent at any moment from channels Chs, !debat_join
\* with a user and a side from Js, !debat_mulai with rounds from Rs, the
\* runners' steps and the clock advancing in steps from Ds
NextDebateOf(Chs, Js, Rs, Ds) ==
    \/ \E ch \in Chs, ts \in TurnSecondsInputs, r \in Rs :
          DebatMulai(ch, ts, r)
    \/ \E ch \in Chs, j \in Js : DebatJoin(ch, j[1], j[2])
    \/ \E ch \in Chs : DebatStart(ch)
    \/ \E ch \in Chs : DebatStop(ch)
    \/ \E t \in TaskRefs, ok \in BOOLEAN : RunnerBegin(t, ok)
    \/ \E t \in TaskRefs : RunnerSent(t)
    \/ \E t \in TaskRefs : RunnerSendFails(t)
    \/ \E t \in TaskRefs : RunnerWake(t)
    \/ \E t \in TaskRefs : RunnerCancelled(t)
    \/ \E d \in Ds : LoopTick(d)

\* user 1 argues pro; user 2 argues kontra or names no side
Debaters == {<<1, u_pro>>, <<2, u_kontra>>, <<2, u_netral>>}

\* the debate referee alone: the ledger file is absent at start and the
\* handlers' answers are not observed.  Two users with their sides in one
\* channel, debates of one round, every interleaving of commands and runner
\* steps
NextDebate == NextDebateOf({1}, Debaters, {0, 1}, TickSteps)
SpecDebate == InitWith(EmptyLedger, 0, Unobserved) /\ [][NextDebate]_vars

\* the debates of one channel, two users for PRO and one for KONTRA, one or
\* two rounds, the clock also advancing by half a turn
Speakers == {<<1, u_pro>>, <<2, u_pro>>, <<3, u_kontra>>}
NextDebateRun == NextDebateOf({1}, Speakers, {1, 2}, TickSteps)
SpecDebateRun == InitWith(EmptyLedger, 0, Unobserved) /\ [][NextDebateRun]_vars

(***************************************************************************)
(* Mini-games: word guess, image guess, trivia, word chain                 *)
(***************************************************************************)
MaxMsgId      == 3    \* prompt messages sent in one behaviour
MaxPending    == 2    \* start handlers suspended in their prompt send
MaxGamePoints == 12   \* balance up to which the games are played

KataReward   == 10
GambarReward == 10
TriviaReward == 12
ChainReward  == 2
MinChainLen  == 3

W_python  == <<"p", "y", "t", "h", "o", "n">>
W_discord == <<"d", "i", "s", "c", "o", "r", "d">>
W_kopi    == <<"k", "o", "p", "i">>
W_pizza   == <<"p", "i", "z", "z", "a">>
W_ikan    == <<"i", "k", "a", "n">>

\* entries of WORD_BANK, answers of EMOJI_CLUES, entries of TRIVIA_BANK
WORD_BANK   == {W_python, W_discord}
EMOJI_CLUES == {W_kopi, W_pizza}
TRIVIA_BANK == { [question |-> 1, answer |-> <<"B">>],
                 [question |-> 2, answer |-> <<"C">>] }
TriviaOptions == { <<"A">>, <<"B">>, <<"C">>, <<"D">> }

\* what the users type
KataGuesses   == { <<" ", "P", "y", "t", "h", "o", "n", " ">>, W_discord, W_kopi }
GambarGuesses == { <<"K", "O", "P", "I">>, <<"p", "i", "z", "z", "a", " ">>, W_python }
TriviaPicks   == { <<"b">>, <<" ", "C">>, <<"E">> }
ChainWords    == { <<" ", "N", "a", "s", "i", "!">>, W_ikan, <<"n", "o">> }

\* str.isalpha(), one character
IsAlpha(c) == \E i \in 1..Len(LowerCase) : LowerCase[i] = c \/ UpperCase[i] = c

\* ''.join(ch for ch in w if pred(ch))
RECURSIVE OnlyAlpha(_)
OnlyAlpha(w) ==
    IF w = <<>> THEN <<>>
    ELSE IF IsAlpha(Head(w)) THEN <<Head(w)>> \o OnlyAlpha(Tail(w))
    ELSE OnlyAlpha(Tail(w))

clean_word(word) == OnlyAlpha(Strip(Lower(word)))

DropAt(q, i) == SubSeq(q, 1, i - 1) \o SubSeq(q, i + 1, Len(q))

\* add_points without the deletion that follows it
RewardOnly(active, ch) == active

\* del active[channel_id]
EndSession(active, ch) == Del(active, ch)

\* add_points(author, pts), with its save
Reward(u, pts) ==
    LET r == add_points(game_data, u, pts)
    IN  /\ r[2] <= MaxGamePoints
        /\ game_data' = r[1]
        /\ Save(r[1])

\* tebak_kata / tebak_gambar up to the await of the prompt message; Discord
\* gives the message its id
StartPrompt(cmd, ch, answer) ==
    /\ Len(pending) < MaxPending
    /\ next_msg_id <= MaxMsgId
    /\ pending' = Append(pending, [cmd |-> cmd, ch |-> ch, answer |-> answer,
                                   prompt_id |-> next_msg_id])
    /\ next_msg_id' = next_msg_id + 1
    /\ Reply([op |-> cmd, result |-> "prompt"])
    /\ UNCHANGED <<ledgerVars, debateVars, cardVars, now, tebak_kata_active,
                   tebak_gambar_active, trivia_active, sambung_kata_active>>

TebakKata(ch, answer) == StartPrompt("tebak_kata", ch, answer)

TebakGambar(ch, answer) == StartPrompt("tebak_gambar", ch, answer)

\* active[channel_id] = state
Store(active, ch, state) == Put(active, ch, state)

\* the prompt send returns: the session is stored under the channel
PromptSent(i) ==
    LET e     == pending[i]
        state == [answer |-> Lower(e.answer), prompt_id |-> e.prompt_id]
    IN  /\ pending' = DropAt(pending, i)
        /\ IF e.cmd = "tebak_kata"
           THEN /\ tebak_kata_active' = Store(tebak_kata_active, e.ch, state)
                /\ Reply([op |-> e.cmd, result |-> "started", ch |-> e.ch,
                          replaced |-> e.ch \in DOMAIN tebak_kata_active])
                /\ UNCHANGED tebak_gambar_active
           ELSE /\ tebak_gambar_active' = Store(tebak_gambar_active, e.ch, state)
                /\ Reply([op |-> e.cmd, result |-> "started", ch |-> e.ch,
                          replaced |-> e.ch \in DOMAIN tebak_gambar_active])
                /\ UNCHANGED tebak_kata_active
        /\ UNCHANGED <<ledgerVars, debateVars, cardVars, now, trivia_active,
                       sambung_kata_active, next_msg_id>>

\* the prompt send raises: the handler ends before it stores anything
PromptFails(i) ==
    /\ pending' = DropAt(pending, i)
    /\ Reply([op |-> pending[i].cmd, result |-> "send_failed"])
    /\ UNCHANGED <<ledgerVars, debateVars, cardVars, now, tebak_kata_active,
                   tebak_gambar_active, trivia_active, sambung_kata_active,
                   next_msg_id>>

JawabKata(ch, u, jawaban) ==
    /\ IF ch \notin DOMAIN tebak_kata_active
       THEN /\ Reply([op |-> "jawab_kata", result |-> "no_game"])
            /\ UNCHANGED <<ledgerVars, tebak_kata_active>>
       ELSE IF Lower(Strip(jawaban)) = tebak_kata_active[ch].answer
       THEN /\ Reward(u, KataReward)
            /\ tebak_kata_active' = EndSession(tebak_kata_active, ch)
            /\ Reply([op |-> "jawab_kata", result |-> "correct", ch |-> ch,
                      user |-> u])
       ELSE /\ Reply([op |-> "jawab_kata", result |-> "wrong"])
            /\ UNCHANGED <<ledgerVars, tebak_kata_active>>
    /\ UNCHANGED <<debateVars, cardVars, now, tebak_gambar_active, trivia_active,
                   sambung_kata_active, pending, next_msg_id>>

JawabGambar(ch, u, jawaban) ==
    /\ IF ch \notin DOMAIN tebak_gambar_active
       THEN /\ Reply([op |-> "jawab_gambar", result |-> "no_game"])
            /\ UNCHANGED <<ledgerVars, tebak_gambar_active>>
       ELSE IF Lower(Strip(jawaban)) = tebak_gambar_active[ch].answer
       THEN /\ Reward(u, GambarReward)
            /\ tebak_gambar_active' = EndSession(tebak_gambar_active, ch)
            /\ Reply([op |-> "jawab_gambar", result |-> "correct", ch |-> ch,
                      user |-> u])
       ELSE /\ Reply([op |-> "jawab_gambar", result |-> "wrong"])
            /\ UNCHANGED <<ledgerVars, tebak_gambar_active>>
    /\ UNCHANGED <<debateVars, cardVars, now, tebak_kata_active, trivia_active,
                   sambung_kata_active, pending, next_msg_id>>

Trivia(ch, q) ==
    /\ trivia_active' = Store(trivia_active, ch, q)
    /\ Reply([op |-> "trivia", result |-> "started", ch |-> ch,
              replaced |-> ch \in DOMAIN trivia_active])
    /\ UNCHANGED <<ledgerVars, debateVars, cardVars, now, tebak_kata_active,
                   tebak_gambar_active, sambung_kata_active, pending, next_msg_id>>

JawabTrivia(ch, u, pilihan_in) ==
    LET pilihan == Upper(Strip(pilihan_in))
    IN  /\ IF ch \notin DOMAIN trivia_active
           THEN /\ Reply([op |-> "jawab_trivia", result |-> "no_game"])
                /\ UNCHANGED <<ledgerVars, trivia_active>>
           ELSE IF pilihan \notin TriviaOptions
           THEN /\ Reply([op |-> "jawab_trivia", result |-> "bad_option"])
                /\ UNCHANGED <<ledgerVars, trivia_active>>
           ELSE IF pilihan = trivia_active[ch].answer
           THEN /\ Reward(u, TriviaReward)
                /\ trivia_active' = EndSession(trivia_active, ch)
                /\ Reply([op |-> "jawab_trivia", result |-> "correct", ch |-> ch,
                          user |-> u])
           ELSE /\ Reply([op |-> "jawab_trivia", result |-> "wrong"])
                /\ UNCHANGED <<ledgerVars, trivia_active>>
        /\ UNCHANGED <<debateVars, cardVars, now, tebak_kata_active, tebak_gambar_active,
                       sambung_kata_active, pending, next_msg_id>>

\* a chain whose seed word is not put into the used set
SambungKataSeedUnused(ch, seed) ==
    /\ sambung_kata_active' =
          Store(sambung_kata_active, ch, [last |-> seed, used |-> {}])
    /\ Reply([op |-> "sambung_kata", result |-> "started", ch |-> ch,
              replaced |-> ch \in DOMAIN sambung_kata_active])
    /\ UNCHANGED <<ledgerVars, debateVars, cardVars, now, tebak_kata_active,
                   tebak_gambar_active, trivia_active, pending, next_msg_id>>

SambungKata(ch, seed) ==
    /\ sambung_kata_active' =
          Store(sambung_kata_active, ch, [last |-> seed, used |-> {seed}])
    /\ Reply([op |-> "sambung_kata", result |-> "started", ch |-> ch,
              replaced |-> ch \in DOMAIN sambung_kata_active])
    /\ UNCHANGED <<ledgerVars, debateVars, cardVars, now, tebak_kata_active,
                   tebak_gambar_active, trivia_active, pending, next_msg_id>>

KataAnyLength(ch, u, word) ==
    LET cleaned == clean_word(word)
    IN  /\ IF ch \notin DOMAIN sambung_kata_active
           THEN /\ Reply([op |-> "kata", result |-> "no_game"])
                /\ UNCHANGED <<ledgerVars, sambung_kata_active>>
           ELSE LET state == sambung_kata_active[ch]
                IN  IF cleaned \in state.used
                    THEN /\ Reply([op |-> "kata", result |-> "used"])
                         /\ UNCHANGED <<ledgerVars, sambung_kata_active>>
                    ELSE IF cleaned[1] # state.last[Len(state.last)]
                    THEN /\ Reply([op |-> "kata", result |-> "wrong_letter"])
                         /\ UNCHANGED <<ledgerVars, sambung_kata_active>>
                    ELSE /\ sambung_kata_active' =
                               Put(sambung_kata_active, ch,
                                   [last |-> cleaned,
                                    used |-> state.used \cup {cleaned}])
                         /\ Reward(u, ChainReward)
                         /\ Reply([op |-> "kata", result |-> "valid", ch |-> ch,
                                   user |-> u])
        /\ UNCHANGED <<debateVars, cardVars, now, tebak_kata_active, tebak_gambar_active,
                       trivia_active, pending, next_msg_id>>

\* !kata <word>
Kata(ch, u, word) ==
    LET cleaned == clean_word(word)
    IN  /\ IF ch \notin DOMAIN sambung_kata_active
           THEN /\ Reply([op |-> "kata", result |-> "no_game"])
                /\ UNCHANGED <<ledgerVars, sambung_kata_active>>
           ELSE LET state == sambung_kata_active[ch]
                IN  IF Len(cleaned) < MinChainLen
                    THEN /\ Reply([op |-> "kata", result |-> "too_short"])
                         /\ UNCHANGED <<ledgerVars, sambung_kata_active>>
                    ELSE IF cleaned \in state.used
                    THEN /\ Reply([op |-> "kata", result |-> "used"])
                         /\ UNCHANGED <<ledgerVars, sambung_kata_active>>
                    ELSE IF cleaned[1] # state.last[Len(state.last)]
                    THEN /\ Reply([op |-> "kata", result |-> "wrong_letter"])
                         /\ UNCHANGED <<ledgerVars, sambung_kata_active>>
                    ELSE /\ sambung_kata_active' =
                               Put(sambung_kata_active, ch,
                                   [last |-> cleaned,
                                    used |-> state.used \cup {cleaned}])
                         /\ Reward(u, ChainReward)
                         /\ Reply([op |-> "kata", result |-> "valid", ch |-> ch,
                                   user |-> u])
        /\ UNCHANGED <<debateVars, cardVars, now, tebak_kata_active, tebak_gambar_active,
                       trivia_active, pending, next_msg_id>>

SambungStop(ch) ==
    /\ IF ch \in DOMAIN sambung_kata_active
       THEN /\ sambung_kata_active' = Del(sambung_kata_active, ch)
            /\ Reply([op |-> "sambung_stop", result |-> "stopped"])
       ELSE /\ Reply([op |-> "sambung_stop", result |-> "no_game"])
            /\ UNCHANGED sambung_kata_active
    /\ UNCHANGED <<ledgerVars, debateVars, cardVars, now, tebak_kata_active,
                   tebak_gambar_active, trivia_active, pending, next_msg_id>>

\* the messages a !clue or !surrend can be sent in reply to: none or one
\* that is not the bot's (0), or a message of the bot by its id
ReplyTargets == 0..MaxMsgId

\* !surrend sent in reply to the message replied (0: no reply or not to a
\* message of the bot): the session whose prompt it is ends without reward
Surrend(ch, replied) ==
    /\ IF replied = 0
       THEN /\ Reply([op |-> "surrend", result |-> "not_reply"])
            /\ UNCHANGED <<tebak_kata_active, tebak_gambar_active>>
       ELSE IF ch \in DOMAIN tebak_kata_active
               /\ replied = tebak_kata_active[ch].prompt_id
       THEN /\ tebak_kata_active' = EndSession(tebak_kata_active, ch)
            /\ Reply([op |-> "surrend", result |-> "kata", ch |-> ch,
                      answer |-> tebak_kata_active[ch].answer])
            /\ UNCHANGED tebak_gambar_active
       ELSE IF ch \in DOMAIN tebak_gambar_active
               /\ replied = tebak_gambar_active[ch].prompt_id
       THEN /\ tebak_gambar_active' = EndSession(tebak_gambar_active, ch)
            /\ Reply([op |-> "surrend", result |-> "gambar", ch |-> ch,
                      answer |-> tebak_gambar_active[ch].answer])
            /\ UNCHANGED tebak_kata_active
       ELSE /\ Reply([op |-> "surrend", result |-> "not_a_session"])
            /\ UNCHANGED <<tebak_kata_active, tebak_gambar_active>>
    /\ UNCHANGED <<ledgerVars, debateVars, cardVars, now, trivia_active,
                   sambung_kata_active, pending, next_msg_id>>

Players == {1, 2}

\* the first question of TRIVIA_BANK
Q_first == CHOOSE q \in TRIVIA_BANK : q.answer = <<"B">>

\* the three guessing games of one channel with two players, every command
\* sent at any moment: either word, the image of W_kopi and the first
\* question; the ledger file is absent at start and every save succeeds
NextGames ==
    \/ \E w \in WORD_BANK : TebakKata(1, w)
    \/ TebakGambar(1, W_kopi)
    \/ \E i \in 1..Len(pending) : PromptSent(i)
    \/ \E i \in 1..Len(pending) : PromptFails(i)
    \/ \E u \in Players, g \in KataGuesses : JawabKata(1, u, g)
    \/ \E u \in Players, g \in GambarGuesses : JawabGambar(1, u, g)
    \/ Trivia(1, Q_first)
    \/ \E u \in Players, c \in TriviaPicks : JawabTrivia(1, u, c)
    \/ \E m \in ReplyTargets : Surrend(1, m)

SpecGames == InitWith(EmptyLedger, MaxSaveFailures, NoResp) /\ [][NextGames]_vars

\* the sessions of all four games of one channel started, stopped and given
\* up at any moment, with no guess sent
NextStarts ==
    \/ \E w \in WORD_BANK : TebakKata(1, w)
    \/ \E w \in EMOJI_CLUES : TebakGambar(1, w)
    \/ \E i \in 1..Len(pending) : PromptSent(i)
    \/ \E i \in 1..Len(pending) : PromptFails(i)
    \/ \E q \in TRIVIA_BANK : Trivia(1, q)
    \/ \E w \in WORD_BANK : SambungKata(1, w)
    \/ SambungStop(1)
    \/ \E m \in ReplyTargets : Surrend(1, m)

SpecStarts == InitWith(EmptyLedger, MaxSaveFailures, NoResp) /\ [][NextStarts]_vars

(***************************************************************************)
(* Economy: cooldowns, the heist, the wall clock                           *)
(***************************************************************************)
MaxTime    == 240   \* the wall clock is followed up to this second
MaxBalance == 60    \* balances are followed up to this value

HeistCooldown == 120
HeistStake    == 50
HeistChance   == {TRUE, FALSE}   \* random.random() < 0.55
StealAmounts   == {10, 40}       \* ends of random.randint(10, 40)
PenaltyAmounts == {8, 24}        \* draws of random.randint(8, 25)

STR_heist == "heist"
CooldownKeys   == {STR_heist, "daily"}
CooldownInputs == {-60, 0, 60, 120}
ClockSteps     == {60, 120}
RewardAmounts  == {-1000, -10, KataReward, TriviaReward, ChainReward}
Members        == {1, 2}

\* a cooldown stored as a duration instead of an expiry
set_cooldown_elapsed(gd, uid, key, seconds, now_ts) ==
    LET g1 == ensure_user_data(gd, uid)
    IN  [g1 EXCEPT !.cooldowns =
            Put(g1.cooldowns, uid, Put(g1.cooldowns[uid], key, seconds))]

\* set_cooldown at the second now_ts, up to its save
set_cooldown(gd, uid, key, seconds, now_ts) ==
    LET g1 == ensure_user_data(gd, uid)
    IN  [g1 EXCEPT !.cooldowns =
            Put(g1.cooldowns, uid, Put(g1.cooldowns[uid], key, now_ts + seconds))]

cooldown_remaining_unclamped(gd, uid, key, now_ts) ==
    LET g1     == ensure_user_data(gd, uid)
        expiry == IF key \in DOMAIN g1.cooldowns[uid] THEN g1.cooldowns[uid][key]
                  ELSE 0
    IN  <<g1, expiry - now_ts>>

\* cooldown_remaining at the second now_ts: <<ledger after the call, returned
\* value>>
cooldown_remaining(gd, uid, key, now_ts) ==
    LET g1     == ensure_user_data(gd, uid)
        expiry == IF key \in DOMAIN g1.cooldowns[uid] THEN g1.cooldowns[uid][key]
                  ELSE 0
    IN  <<g1, Max(0, expiry - now_ts)>>

\* the file after the saves of the ledgers snaps, one after the other
RECURSIVE save_all(_, _, _)
save_all(snaps, d, outs) ==
    IF snaps = <<>> THEN d
    ELSE save_all(Tail(snaps), save_game_data(Head(snaps), d, Head(outs)),
                  Tail(outs))

\* the saves of one handler that mutates the ledger several times
SaveEach(snaps) ==
    \E outs \in [1..Len(snaps) -> SaveOutcomes] :
        LET failed == Cardinality({i \in 1..Len(snaps) : outs[i] # "ok"})
        IN  /\ save_failures + failed <= MaxSaveFailures
            /\ disk' = save_all(snaps, disk, outs)
            /\ save_failures' = save_failures + failed

SetCooldown(u, key, seconds) ==
    LET g == set_cooldown(game_data, u, key, seconds, now)
    IN  /\ game_data' = g
        /\ Save(g)
        /\ Reply([op |-> "set_cooldown", user |-> u, key |-> key,
                  seconds |-> seconds, at |-> now])
        /\ UNCHANGED <<now, gameVars, debateVars, cardVars>>

CooldownRemaining(u, key) ==
    LET r == cooldown_remaining(game_data, u, key, now)
    IN  /\ game_data' = r[1]
        /\ Reply([op |-> "cooldown_remaining", user |-> u, key |-> key,
                  before |-> game_data, at |-> now, ret |-> r[2]])
        /\ UNCHANGED <<disk, save_failures, now, gameVars, debateVars, cardVars>>

\* the wall clock moves on
Tick(d) ==
    /\ now + d <= MaxTime
    /\ now' = now + d
    /\ UNCHANGED <<ledgerVars, gameVars, debateVars, cardVars, resp>>

\* !heist: author robs target; success and amount are the handler's random
\* draws.  No await lies between the cooldown test and the transfer.
Heist(author, target, target_bot, success, amount) ==
    IF target_bot
    THEN /\ Reply([op |-> "heist", user |-> author, result |-> "bot"])
         /\ UNCHANGED <<ledgerVars, now, gameVars, debateVars, cardVars>>
    ELSE IF target = author
    THEN /\ Reply([op |-> "heist", user |-> author, result |-> "self"])
         /\ UNCHANGED <<ledgerVars, now, gameVars, debateVars, cardVars>>
    ELSE LET cd == cooldown_remaining(game_data, author, STR_heist, now)
         IN  IF cd[2] > 0
             THEN /\ game_data' = cd[1]
                  /\ Reply([op |-> "heist", user |-> author, result |-> "cooldown",
                            remain |-> cd[2]])
                  /\ UNCHANGED <<disk, save_failures, now, gameVars, debateVars, cardVars>>
             ELSE LET a  == get_points(cd[1], author)
                      g1 == IF a[2] = 0 THEN add_points(a[1], author, HeistStake)[1]
                            ELSE a[1]
                      b  == get_points(g1, target)
                      g2 == IF b[2] = 0 THEN add_points(b[1], target, HeistStake)[1]
                            ELSE b[1]
                      g3 == set_cooldown(g2, author, STR_heist, HeistCooldown, now)
                      r  == IF success
                            THEN transfer_points(g3, target, author, amount)
                            ELSE transfer_points(g3, author, target, amount)
                      snaps == (IF a[2] = 0 THEN <<g1>> ELSE <<>>)
                               \o (IF b[2] = 0 THEN <<g2>> ELSE <<>>)
                               \o <<g3, r[1]>>
                  IN  /\ \A u \in DOMAIN r[1].points : r[1].points[u] <= MaxBalance
                      /\ game_data' = r[1]
                      /\ SaveEach(snaps)
                      /\ Reply([op |-> "heist", user |-> author, target |-> target,
                                result |-> IF success THEN "stolen" ELSE "fined",
                                before |-> game_data, ret |-> r[2]])
                      /\ UNCHANGED <<now, gameVars, debateVars, cardVars>>

\* the ledger calls with the game rewards, the heist and the wall clock in
\* steps of the heist cooldown
NextEconomy ==
    \/ \E u \in Members : GetPoints(u)
    \/ \E u \in Members, a \in RewardAmounts : AddPointsUpTo(u, a, MaxBalance)
    \/ \E f \in Members, t \in Members, a \in TransferAmounts :
          TransferPointsUpTo(f, t, a, MaxBalance)
    \/ \E u \in Members, t \in Members, bot \in BOOLEAN, ok \in HeistChance :
          \E a \in IF ok THEN StealAmounts ELSE PenaltyAmounts :
             Heist(u, t, bot, ok, a)
    \/ Tick(HeistCooldown)

\* the economy of two members, the handlers' answers not observed; every
\* save succeeds
InitEconomy == \E gd \in InitLedgers : InitWith(gd, MaxSaveFailures, Unobserved)
SpecEconomy == InitEconomy /\ [][NextEconomy]_vars

\* heists alone: two members rob each other and a bot while the wall clock
\* advances by half a cooldown or a whole one; every answer is observed
NextHeist ==
    \/ \E u \in Members, t \in Members, bot \in BOOLEAN, ok \in HeistChance :
          \E a \in IF ok THEN StealAmounts ELSE PenaltyAmounts :
             Heist(u, t, bot, ok, a)
    \/ \E d \in ClockSteps : Tick(d)

SpecHeist == InitWith(EmptyLedger, MaxSaveFailures, NoResp) /\ [][NextHeist]_vars

\* the cooldown calls of two members and the wall clock; of the two keys
\* read, one is never set
NextCooldown ==
    \/ \E u \in Members, d \in CooldownInputs : SetCooldown(u, STR_heist, d)
    \/ \E u \in Members, k \in CooldownKeys : CooldownRemaining(u, k)
    \/ \E d \in ClockSteps : Tick(d)

SpecCooldown == InitWith(EmptyLedger, MaxSaveFailures, NoResp) /\ [][NextCooldown]_vars

(***************************************************************************)
(* Card engine: cards, the deck, hand values                               *)
(***************************************************************************)
MaxHand == 4    \* cards in a hand handed to the value functions

\* Card.SUITS and Card.RANKS.  No function but __str__ reads the suit of a
\* card, so a card is its rank and the deck counts its cards by rank.
SUITS == <<"spade", "heart", "diamond", "club">>
RANKS == <<"2", "3", "4", "5", "6", "7", "8", "9", "10", "J", "Q", "K", "A">>
Ranks == {RANKS[i] : i \in 1..Len(RANKS)}

\* int(rank) of a number rank
IntOfRank(rank) == 1 + CHOOSE i \in 1..Len(RANKS) : RANKS[i] = rank

\* Card.value
CardValue(rank) ==
    IF rank \in {"J", "Q", "K"} THEN 10
    ELSE IF rank = "A" THEN 11
    ELSE IntOfRank(rank)

\* the for loop of calculate_hand_value: <<total, aces>>
RECURSIVE SumCards(_, _, _)
SumCards(cards, total, aces) ==
    IF cards = <<>> THEN <<total, aces>>
    ELSE IF Head(cards) = "A" THEN SumCards(Tail(cards), total + 11, aces + 1)
    ELSE SumCards(Tail(cards), total + CardValue(Head(cards)), aces)

AdjustAcesOnce(total, aces) ==
    IF total > 21 /\ aces > 0 THEN <<total - 10, aces - 1>>
    ELSE <<total, aces>>

\* the while loop of calculate_hand_value: <<total, aces>>
RECURSIVE AdjustAces(_, _)
AdjustAces(total, aces) ==
    IF total > 21 /\ aces > 0 THEN AdjustAces(total - 10, aces - 1)
    ELSE <<total, aces>>

\* calculate_hand_value, with the local aces as it is at the return
calculate_hand_value(cards) ==
    LET s == SumCards(cards, 0, 0)
        a == AdjustAces(s[1], s[2])
    IN  [total |-> a[1], aces |-> a[2],
         is_soft |-> (a[2] > 0 /\ a[1] + 10 <= 21)]

\* Deck.__init__: num_decks copies of every card; random.shuffle orders them,
\* so that any card still in the deck can be the one popped next
Deck(num_decks) == [r \in Ranks |-> num_decks * Len(SUITS)]

RECURSIVE CountCards(_, _)
CountCards(deck, i) ==
    IF i = 0 THEN 0 ELSE deck[RANKS[i]] + CountCards(deck, i - 1)

\* len(self.cards)
DeckLen(deck) == CountCards(deck, Len(RANKS))

ReshuffleBelow == 10

BeforePopAsIs(deck) == deck

\* the deck a draw pops from: a fresh single deck if fewer than 10 cards are
\* left
BeforePop(deck) == IF DeckLen(deck) < ReshuffleBelow THEN Deck(1) ELSE deck

\* the cards self.cards.pop() can return
Poppable(deck) == LET d == BeforePop(deck) IN {r \in Ranks : d[r] > 0}

\* Deck.draw when the card popped is card: the deck after the draw
draw(deck, card) ==
    LET d == BeforePop(deck) IN [r \in Ranks |-> IF r = card THEN d[r] - 1 ELSE d[r]]

\* the hands of up to n cards
HandsUpTo(n) == UNION {[1..k -> Ranks] : k \in 0..n}

\* calculate_hand_value is called with the hand of the probe and returns
CalculateHandValue ==
    /\ probe.fn = "calculate_hand_value"
    /\ probe.state = "called"
    /\ probe' = [probe EXCEPT !.state = "returned",
                              !.ret = calculate_hand_value(probe.cards)]
    /\ UNCHANGED <<ledgerVars, gameVars, debateVars, bj, qq, now, resp>>

\* calculate_hand_value on every hand of up to MaxHand cards
InitHands ==
    /\ InitBase(EmptyLedger, 0, NoResp)
    /\ \E h \in HandsUpTo(MaxHand) :
          probe = [fn |-> "calculate_hand_value", state |-> "called",
                   cards |-> h, ret |-> [total |-> 0, aces |-> 0, is_soft |-> FALSE]]
NextHands == CalculateHandValue
SpecHands == InitHands /\ [][NextHands]_vars

(***************************************************************************)
(* Blackjack                                                               *)
(***************************************************************************)
MaxHits == 1    \* cards the player is followed through drawing

\* the ranks the deck deals in the rounds followed
DealtRanks == {"A", "6", "7", "10"}

StandResults == {"dealer_bust", "win", "lose", "push"}

\* BlackjackGame.__init__ with the four cards the shuffled deck gives
BlackjackGame(player_id, c1, c2, c3, c4) ==
    [state |-> "game", player_id |-> player_id,
     deck |-> draw(draw(draw(draw(Deck(1), c1), c2), c3), c4),
     player_hand |-> <<c1, c2>>, dealer_hand |-> <<c3, c4>>,
     game_over |-> FALSE, result |-> "none",
     view |-> "none", disabled |-> FALSE, shown_disabled |-> FALSE]

check_blackjack_never(g) == <<g, FALSE>>

\* a check that looks at the dealer's hand first
check_blackjack_dealer_first(g) ==
    LET player_value == calculate_hand_value(g.player_hand).total
        dealer_value == calculate_hand_value(g.dealer_hand).total
    IN  IF dealer_value = 21 /\ Len(g.dealer_hand) = 2
        THEN <<[g EXCEPT !.game_over = TRUE, !.result = "dealer_blackjack"], TRUE>>
        ELSE IF player_value = 21 /\ Len(g.player_hand) = 2
        THEN <<[g EXCEPT !.game_over = TRUE, !.result = "blackjack"], TRUE>>
        ELSE <<g, FALSE>>

\* BlackjackGame.check_blackjack: <<game after the call, returned value>>
check_blackjack(g) ==
    LET player_value == calculate_hand_value(g.player_hand).total
        dealer_value == calculate_hand_value(g.dealer_hand).total
    IN  IF player_value = 21 /\ Len(g.player_hand) = 2
        THEN <<[g EXCEPT !.game_over = TRUE, !.result = "blackjack"], TRUE>>
        ELSE IF dealer_value = 21 /\ Len(g.dealer_hand) = 2
        THEN <<[g EXCEPT !.game_over = TRUE, !.result = "dealer_blackjack"], TRUE>>
        ELSE <<g, FALSE>>

\* BlackjackGame.player_hit when the card drawn is card
player_hit(g, card) ==
    LET hand == Append(g.player_hand, card)
        g1   == [g EXCEPT !.deck = draw(g.deck, card), !.player_hand = hand]
    IN  IF calculate_hand_value(hand).total > 21
        THEN [g1 EXCEPT !.game_over = TRUE, !.result = "bust"]
        ELSE g1

\* a dealer who stops one point early
DealerDrawsBelow16(hand) == calculate_hand_value(hand).total < 16

\* the dealer's test before each draw
DealerDraws(hand) ==
    LET v == calculate_hand_value(hand)
    IN  v.total < 17 \/ (v.total = 17 /\ v.is_soft)

\* the while loop of play_dealer: every <<dealer hand, deck>> it can end with
\* when the deck gives cards of the ranks in ranks
RECURSIVE DealerRuns(_, _, _)
DealerRuns(hand, deck, ranks) ==
    IF DealerDraws(hand)
    THEN UNION {DealerRuns(Append(hand, c), draw(deck, c), ranks) :
                   c \in ranks \cap Poppable(deck)}
    ELSE {<<hand, deck>>}

OutcomeNoBust(player_value, dealer_value) ==
    IF player_value > dealer_value THEN "win"
    ELSE IF player_value < dealer_value THEN "lose"
    ELSE "push"

\* the comparison that ends play_dealer
Outcome(player_value, dealer_value) ==
    IF dealer_value > 21 THEN "dealer_bust"
    ELSE IF player_value > dealer_value THEN "win"
    ELSE IF player_value < dealer_value THEN "lose"
    ELSE "push"

\* BlackjackGame.player_stand when the dealer's loop ends with run
player_stand(g, run) ==
    [g EXCEPT !.game_over = TRUE,
              !.dealer_hand = run[1],
              !.deck = run[2],
              !.result = Outcome(calculate_hand_value(g.player_hand).total,
                                 calculate_hand_value(run[1]).total)]

\* !blackjack and /blackjack: a round is dealt; a natural blackjack ends it at
\* once, otherwise the message goes out with the HIT and STAND buttons
Blackjack(u, c1, c2, c3, c4) ==
    /\ bj = NoGame
    /\ LET cb == check_blackjack(BlackjackGame(u, c1, c2, c3, c4))
       IN  bj' = IF cb[2] THEN cb[1] ELSE [cb[1] EXCEPT !.view = "open"]
    /\ Reply([op |-> "blackjack", user |-> u])
    /\ UNCHANGED <<ledgerVars, gameVars, debateVars, qq, probe, now>>

\* a click reaches the view while the message shows the buttons enabled
Clickable == bj # NoGame /\ bj.view = "open" /\ ~bj.shown_disabled

\* BlackjackView.hit_button
HitButton(user, card) ==
    /\ Clickable
    /\ card \in Poppable(bj.deck)
    /\ Len(bj.player_hand) < 2 + MaxHits
    /\ IF user # bj.player_id THEN UNCHANGED bj
       ELSE LET g == player_hit(bj, card)
            IN  bj' = [g EXCEPT !.disabled = g.game_over \/ bj.disabled]
    /\ Reply([op |-> "hit_button", user |-> user])
    /\ UNCHANGED <<ledgerVars, gameVars, debateVars, qq, probe, now>>

\* BlackjackView.stand_button
StandButton(user) ==
    /\ Clickable
    /\ IF user # bj.player_id THEN UNCHANGED bj
       ELSE \E run \in DealerRuns(bj.dealer_hand, bj.deck, DealtRanks) :
               bj' = [player_stand(bj, run) EXCEPT !.disabled = TRUE]
    /\ Reply([op |-> "stand_button", user |-> user])
    /\ UNCHANGED <<ledgerVars, gameVars, debateVars, qq, probe, now>>

\* interaction.response.edit_message takes effect: the message shows the
\* buttons as the view has them
EditDelivered ==
    /\ bj # NoGame
    /\ bj.view = "open"
    /\ bj.shown_disabled # bj.disabled
    /\ bj' = [bj EXCEPT !.shown_disabled = bj.disabled]
    /\ UNCHANGED <<ledgerVars, gameVars, debateVars, qq, probe, now, resp>>

\* the view's timeout of 60 seconds without a click: it takes no more
\* clicks, and nothing refers to the round any more
ViewTimeout ==
    /\ bj # NoGame
    /\ bj.view = "open"
    /\ bj' = NoGame
    /\ UNCHANGED <<ledgerVars, gameVars, debateVars, qq, probe, now, resp>>

\* the handler that dealt a natural blackjack returns: nothing refers to the
\* round any more
ForgetRound ==
    /\ bj # NoGame
    /\ bj.view = "none"
    /\ bj' = NoGame
    /\ UNCHANGED <<ledgerVars, gameVars, debateVars, qq, probe, now, resp>>

Gamblers == {1, 2}

\* one blackjack round at a time, dealt to user 1 from the ranks in
\* DealtRanks; both users click
DealBlackjack ==
    /\ bj = NoGame
    /\ \E c1 \in DealtRanks, c2 \in DealtRanks,
          c3 \in DealtRanks, c4 \in DealtRanks : Blackjack(1, c1, c2, c3, c4)

NextBlackjack ==
    \/ DealBlackjack
    \/ \E u \in Gamblers, c \in DealtRanks : HitButton(u, c)
    \/ \E u \in Gamblers : StandButton(u)
    \/ EditDelivered
    \/ ViewTimeout
    \/ ForgetRound

SpecBlackjack == InitWith(EmptyLedger, 0, NoResp) /\ [][NextBlackjack]_vars

(***************************************************************************)
(* QQ                                                                      *)
(***************************************************************************)
\* qq_card_value
qq_card_value(rank) ==
    IF rank \in {"10", "J", "Q", "K"} THEN 0
    ELSE IF rank = "A" THEN 1
    ELSE IntOfRank(rank)

RECURSIVE SumQQ(_)
SumQQ(cards) ==
    IF cards = <<>> THEN 0 ELSE qq_card_value(Head(cards)) + SumQQ(Tail(cards))

qq_hand_value_nomod(cards) == SumQQ(cards)

\* qq_hand_value
qq_hand_value(cards) == SumQQ(cards) % 10

\* the deck after the cards of cs have been drawn one after the other
RECURSIVE DrawAll(_, _)
DrawAll(deck, cs) ==
    IF cs = <<>> THEN deck ELSE DrawAll(draw(deck, Head(cs)), Tail(cs))

\* whether the deck can give the cards of cs one after the other
RECURSIVE CanDraw(_, _)
CanDraw(deck, cs) ==
    IF cs = <<>> THEN TRUE
    ELSE /\ BeforePop(deck)[Head(cs)] > 0
         /\ CanDraw(draw(deck, Head(cs)), Tail(cs))

\* QQGame._resolve_result
_resolve_result(player_value, dealer_value) ==
    IF player_value > dealer_value THEN "win"
    ELSE IF player_value < dealer_value THEN "lose"
    ELSE "tie"

\* QQGame.__init__ with the six cards the shuffled deck gives
QQGame(player_id, cs) ==
    LET player_hand == SubSeq(cs, 1, 3)
        dealer_hand == SubSeq(cs, 4, 6)
    IN  [state |-> "game", player_id |-> player_id,
         deck |-> DrawAll(Deck(1), cs),
         player_hand |-> player_hand, dealer_hand |-> dealer_hand,
         player_value |-> qq_hand_value(player_hand),
         dealer_value |-> qq_hand_value(dealer_hand),
         result |-> _resolve_result(qq_hand_value(player_hand),
                                    qq_hand_value(dealer_hand))]

\* !qq and /qq: the round is dealt and resolved in the constructor
QQ(u, cs) ==
    /\ qq = NoGame
    /\ CanDraw(Deck(1), cs)
    /\ qq' = QQGame(u, cs)
    /\ UNCHANGED <<ledgerVars, gameVars, debateVars, bj, probe, now, resp>>

\* the handler has sent the result and returns
ForgetQQ ==
    /\ qq # NoGame
    /\ qq' = NoGame
    /\ UNCHANGED <<ledgerVars, gameVars, debateVars, bj, probe, now, resp>>

\* the ranks the deck gives the dealer in the rounds followed; the player is
\* given any rank
QQDealerRanks == {"9", "K", "A"}

DealQQ ==
    /\ qq = NoGame
    /\ \E p \in [1..3 -> Ranks], d \in [1..3 -> QQDealerRanks] : QQ(1, p \o d)

NextQQ ==
    \/ DealQQ
    \/ ForgetQQ

SpecQQ == InitWith(EmptyLedger, 0, NoResp) /\ [][NextQQ]_vars

(***************************************************************************)
(* A deck drawn from again and again                                       *)
(***************************************************************************)
MaxDraws == 45    \* draws followed on one deck

DeckCounts == {0, 1}    \* num_decks the deck is built with

\* the ranks left in the deck a draw pops from, lowest and highest
LeftIn(deck) == {i \in 1..Len(RANKS) : BeforePop(deck)[RANKS[i]] > 0}
EndsLeft(deck) ==
    {RANKS[i] : i \in {k \in LeftIn(deck) : \/ \A j \in LeftIn(deck) : k <= j
                                            \/ \A j \in LeftIn(deck) : k >= j}}

\* Deck.draw on the deck of the probe, the card popped being card
DeckDraw(card) ==
    /\ probe.fn = "Deck.draw"
    /\ probe.draws < MaxDraws
    /\ card \in Poppable(probe.cards)
    /\ probe' = [probe EXCEPT !.cards = draw(probe.cards, card),
                              !.ret = card,
                              !.draws = @ + 1]
    /\ UNCHANGED <<ledgerVars, gameVars, debateVars, bj, qq, now, resp>>

InitDeck ==
    /\ InitBase(EmptyLedger, 0, NoResp)
    /\ \E n \in DeckCounts :
          probe = [fn |-> "Deck.draw", num_decks |-> n, cards |-> Deck(n),
                   ret |-> "none", draws |-> 0]

\* the shuffles followed are those that give the lowest or the highest rank
\* left
NextDeck ==
    \E card \in EndsLeft(probe.cards) : DeckDraw(card)

SpecDeck == InitDeck /\ [][NextDeck]_vars

(***************************************************************************)
(* Puzzle generator: shuffle_word                                          *)
(***************************************************************************)
ShuffleTries == 10

\* the words shuffle_word is called with
ScrambleWords == {<<>>, <<"a">>, <<"a", "a">>, <<"A", "a">>, <<"a", "b">>,
                  W_kopi, W_ikan, W_pizza, W_python}

\* the orders random.shuffle can leave n characters in
Orders(n) == {p \in [1..n -> 1..n] : \A i \in 1..n, j \in 1..n : i # j => p[i] # p[j]}

ReorderFirstOnly(chars, p) == [i \in 1..Len(chars) |-> chars[p[1]]]

\* chars after random.shuffle(chars) has put them in the order p
Reorder(chars, p) == [i \in 1..Len(chars) |-> chars[p[i]]]

\* shuffle_word is entered: a word of fewer than 2 characters is returned as
\* it is
ShuffleWordCall ==
    /\ probe.fn = "shuffle_word"
    /\ probe.state = "called"
    /\ probe' = IF Len(probe.word) < 2
                THEN [probe EXCEPT !.state = "returned", !.ret = probe.word]
                ELSE [probe EXCEPT !.state = "loop", !.chars = probe.word]
    /\ UNCHANGED <<ledgerVars, gameVars, debateVars, bj, qq, now, resp>>

\* one pass of the for loop, the shuffle giving the order p; after the last
\* pass the characters are returned as they are
ShuffleWordTry(p) ==
    /\ probe.fn = "shuffle_word"
    /\ probe.state = "loop"
    /\ LET chars == Reorder(probe.chars, p)
       IN  probe' = IF Lower(chars) # Lower(probe.word)
                       \/ probe.tries + 1 = ShuffleTries
                    THEN [probe EXCEPT !.state = "returned", !.chars = chars,
                                       !.tries = @ + 1, !.ret = chars]
                    ELSE [probe EXCEPT !.chars = chars, !.tries = @ + 1]
    /\ UNCHANGED <<ledgerVars, gameVars, debateVars, bj, qq, now, resp>>

InitScramble ==
    /\ InitBase(EmptyLedger, 0, NoResp)
    /\ \E w \in ScrambleWords :
          probe = [fn |-> "shuffle_word", state |-> "called", word |-> w,
                   chars |-> <<>>, tries |-> 0, ret |-> <<>>]

NextScramble ==
    \/ ShuffleWordCall
    \/ /\ probe.fn = "shuffle_word"
       /\ probe.state = "loop"
       /\ \E p \in Orders(Len(probe.chars)) : ShuffleWordTry(p)

SpecScramble == InitScramble /\ [][NextScramble]_vars

(***************************************************************************)
(* The word chain played on its own                                        *)
(***************************************************************************)
W_naik == <<"n", "a", "i", "k">>
W_kata == <<"k", "a", "t", "a">>
W_ayam == <<"a", "y", "a", "m">>

\* the words sent with !kata
KataInputs == { W_naik, <<" ", "K", "a", "t", "a", "!">>, W_ayam, W_kata,
                <<"a", "n">>, <<"n", "4", "s">>, W_python }

\* one channel's word chain with two players: !sambungkata, !kata and
\* !sambungstop in any order
NextChain ==
    \/ \E w \in WORD_BANK : SambungKata(1, w)
    \/ \E u \in Players, w \in KataInputs : Kata(1, u, w)
    \/ SambungStop(1)

SpecChain == InitWith(EmptyLedger, MaxSaveFailures, NoResp) /\ [][NextChain]_vars

(***************************************************************************)
(* Commands with an argument that is checked                               *)
(***************************************************************************)
\* one channel: user 1 plays the word chain and the trivia while users 1 and
\* 2 sign up for a debate that is not started
NextChecked ==
    \/ \E w \in WORD_BANK : SambungKata(1, w)
    \/ \E w \in ChainWords : Kata(1, 1, w)
    \/ \E q \in TRIVIA_BANK : Trivia(1, q)
    \/ \E c \in TriviaPicks : JawabTrivia(1, 1, c)
    \/ DebatMulai(1, MinTurnSeconds, MinRounds)
    \/ \E j \in Debaters : DebatJoin(1, j[1], j[2])

SpecChecked == InitWith(EmptyLedger, 0, NoResp) /\ [][NextChecked]_vars

(***************************************************************************)
(* Debate score log and summary                                            *)
(***************************************************************************)
MaxLogged == 2   \* entries of a session's score log that are followed

\* len([1 for _, side in s.points if side == name])
CountSide(points, name) ==
    Cardinality({i \in 1..Len(points) : points[i][2] = name})

\* !debat_poin <point>
DebatPoin(ch, uid) ==
    /\ IF ch \notin DOMAIN debate_sessions
       THEN /\ Reply([op |-> "debat_poin", ch |-> ch, result |-> "no_session"])
            /\ UNCHANGED debateVars
       ELSE LET sid  == debate_sessions[ch]
                s    == debate_objs[sid]
                side == _side_of_user(s, uid)
            IN  IF side = "None"
                THEN /\ Reply([op |-> "debat_poin", ch |-> ch, user |-> uid,
                               result |-> "not_joined"])
                     /\ UNCHANGED debateVars
                ELSE /\ Len(s.points) < MaxLogged
                     /\ debate_objs' =
                           [debate_objs EXCEPT ![sid].points = Append(@, <<uid, side>>)]
                     /\ Reply([op |-> "debat_poin", ch |-> ch, user |-> uid,
                               result |-> "logged", side |-> side])
                     /\ UNCHANGED <<debate_sessions, debate_tasks, task_objs>>
    /\ UNCHANGED <<ledgerVars, gameVars, cardVars, now>>

\* !debat_ringkas: the embed's roster, count and status fields
DebatRingkas(ch) ==
    /\ IF ch \notin DOMAIN debate_sessions
       THEN Reply([op |-> "debat_ringkas", ch |-> ch, result |-> "no_session"])
       ELSE LET s == debate_objs[debate_sessions[ch]]
            IN  Reply([op |-> "debat_ringkas", ch |-> ch, result |-> "summary",
                       pro |-> s.pro, kontra |-> s.kontra,
                       pro_count |-> CountSide(s.points, "PRO"),
                       kontra_count |-> CountSide(s.points, "KONTRA"),
                       status |-> IF s.running THEN "Berjalan"
                                  ELSE "Selesai/Standby"])
    /\ UNCHANGED <<ledgerVars, gameVars, debateVars, cardVars, now>>

\* the debate of one channel with every answer observed: users 1 and 2 with
\* their sides, debates of one round, !debat_mulai also sent while a debate
\* is under way
NextReferee == NextDebateOf({1}, Debaters, {MinRounds}, {MinTurnSeconds})

SpecReferee == InitWith(EmptyLedger, 0, NoResp) /\ [][NextReferee]_vars

\* user 1 argues pro, user 2 kontra
Scorers == {<<1, u_pro>>, <<2, u_kontra>>}

\* the debates of one channel with every answer observed: points are logged
\* and the summary is asked for before, during and after the run
NextScore ==
    \/ NextDebateOf({1}, Scorers, {MinRounds}, {MinTurnSeconds})
    \/ \E u \in Players : DebatPoin(1, u)
    \/ DebatRingkas(1)

SpecScore == InitWith(EmptyLedger, 0, NoResp) /\ [][NextScore]_vars

\* the debates of one channel with every answer observed: users 1 and 2
\* join and change sides at any moment
NextSides ==
    NextDebateOf({1}, Players \X {u_pro, u_kontra}, {MinRounds}, {MinTurnSeconds})

SpecSides == InitWith(EmptyLedger, 0, NoResp) /\ [][NextSides]_vars

\* the debates of one channel with user 1 logging points and the summary
\* asked for at any moment; the event loop runs every task that is ready (its
\* send has returned, its sleep is over) and its clock keeps advancing
NextScoreRun ==
    \/ NextDebateOf({1}, Scorers, {MinRounds}, {MinTurnSeconds})
    \/ DebatPoin(1, 1)
    \/ DebatRingkas(1)

SpecScoreFair ==
    /\ InitWith(EmptyLedger, 0, NoResp) /\ [][NextScoreRun]_vars
    /\ \A t \in TaskRefs : WF_vars(RunnerSent(t))
    /\ \A t \in TaskRefs : WF_vars(RunnerWake(t))
    /\ WF_vars(LoopTick(MinTurnSeconds))

(***************************************************************************)
(* The ledger with writes that fail                                        *)
(***************************************************************************)
PersistAmounts == {-10, 10}

\* two members read, earn, lose and pass on points and set and read the
\* heist cooldown; the ledger file is absent at start and writes may fail
NextPersist ==
    \/ \E u \in Members : GetPoints(u)
    \/ \E u \in Members, a \in PersistAmounts : AddPointsUpTo(u, a, MaxPoints)
    \/ \E f \in Members, t \in Members : TransferPointsUpTo(f, t, KataReward, MaxPoints)
    \/ \E u \in Members : SetCooldown(u, STR_heist, HeistCooldown)
    \/ \E u \in Members : CooldownRemaining(u, STR_heist)

SpecPersist == InitWith(EmptyLedger, 0, NoResp) /\ [][NextPersist]_vars

(***************************************************************************)
(* Two channels, several kinds of session                                  *)
(***************************************************************************)
\* users 1 and 2 debate in channels 1 and 2; channel 1 also has a word
\* chain, channel 2 a trivia question that user 1 answers; the handlers'
\* answers are not observed
NextSlots ==
    \/ NextDebateOf({1, 2}, {<<1, u_pro>>, <<2, u_kontra>>}, {MinRounds},
                    {MinTurnSeconds})
    \/ SambungKata(1, W_python)
    \/ SambungStop(1)
    \/ Trivia(2, Q_first)
    \/ JawabTrivia(2, 1, <<"b">>)

SpecSlots == InitWith(EmptyLedger, MaxSaveFailures, Unobserved) /\ [][NextSlots]_vars

(***************************************************************************)
(* Debate properties                                                       *)
(***************************************************************************)
\* the speakers of one round: the PRO roster, then the KONTRA roster
PerRound(s) ==
    [i \in 1..(Len(s.pro) + Len(s.kontra)) |->
        IF i <= Len(s.pro) THEN <<"PRO", s.pro[i]>>
        ELSE <<"KONTRA", s.kontra[i - Len(s.pro)]>>]

\* the turns of a whole debate: R times the round, numbered 1..R
Expected(s) ==
    LET n == Len(s.pro) + Len(s.kontra)
    IN  [k \in 1..(s.rounds * n) |->
            <<((k - 1) \div n) + 1,
              PerRound(s)[((k - 1) % n) + 1][1],
              PerRound(s)[((k - 1) % n) + 1][2]>>]

IsPrefix(p, q) == Len(p) <= Len(q) /\ \A i \in 1..Len(p) : p[i] = q[i]

\* task t announces a turn in this step
Emits(t) == Len(task_objs'[t].log) > Len(task_objs[t].log)

\* task t reaches the completion message in this step
Completes(t) == task_objs'[t].pc = "send_done" /\ task_objs[t].pc # "send_done"

\* C1: a runner that is neither stopped nor replaced announces the turns of
\* Expected(session) one at a time and in that order (rounds 1..R, PRO before
\* KONTRA, each roster in join order), has announced all R * (|pro| + |kontra|)
\* of them when it reaches the completion message, goes to sleep after every
\* turn and leaves the sleep only when turn_seconds have elapsed
DebateTurnsInOrder ==
    [][\A t \in TaskRefs :
          LET T  == task_objs[t]
              T2 == task_objs'[t]
              s  == debate_objs[T.session]
              s2 == debate_objs'[T2.session]
          IN  (T2.status = "active") =>
                /\ T2.pc \in {"send_turn", "sleep"} => IsPrefix(T2.log, Expected(s2))
                /\ Emits(t) => /\ Len(T2.log) = Len(T.log) + 1
                               /\ T2.pc = "send_turn"
                /\ Completes(t) => /\ T2.log = Expected(s2)
                                   /\ Len(T2.log) = s2.rounds * (Len(s2.pro) + Len(s2.kontra))
                /\ (T.status = "active" /\ T.pc = "send_turn") =>
                       T2.pc \in {"send_turn", "sleep"} /\ T2.log = T.log
                /\ (T.status = "active" /\ T.pc = "sleep" /\ T2.pc # "sleep") =>
                       T.slept >= s.turn_seconds
                /\ (T.status = "active" /\ T.pc = "sleep" /\ T2.pc = "sleep") =>
                       /\ T2.log = T.log
                       /\ T2.slept >= T.slept
      ]_vars

\* the example of the specification: rounds = 2, two PRO speakers and one
\* KONTRA speaker, the runner has announced all six turns
DebateTurnsInOrderWitness ==
    \E t \in TaskRefs :
       /\ task_objs[t].status = "active"
       /\ task_objs[t].pc = "send_done"
       /\ Len(task_objs[t].log) = 6
       /\ debate_objs[task_objs[t].session].rounds = 2
       /\ Len(debate_objs[task_objs[t].session].pro) = 2
       /\ Len(debate_objs[task_objs[t].session].kontra) = 1
       /\ task_objs[t].log[2][3] # task_objs[t].log[1][3]

\* C2: when debat_start attaches a new runner, every runner of that channel
\* that was alive is cancelled in the same step; only the runner that
\* debate_tasks holds for its channel, and only while it is not cancelled,
\* announces a turn or the completion
EarlierRunnerCancelled ==
    [][\A t \in TaskRefs :
          /\ (task_objs[t].status = "free" /\ task_objs'[t].status = "active") =>
                \A u \in TaskRefs \ {t} :
                   (/\ TaskAlive(task_objs[u])
                    /\ ChannelOf(debate_objs, task_objs[u])
                         = ChannelOf(debate_objs', task_objs'[t]))
                   => /\ task_objs'[u].status = "cancelling"
                      /\ task_objs'[u].by = "debat_start"
          /\ (Emits(t) \/ Completes(t)) =>
                /\ task_objs[t].status = "active"
                /\ ChannelOf(debate_objs, task_objs[t]) \in DOMAIN debate_tasks
                /\ debate_tasks[ChannelOf(debate_objs, task_objs[t])] = t
      ]_vars

\* the new runner has announced a turn while the runner that debat_start
\* cancelled has not yet been run again by the loop
EarlierRunnerCancelledWitness ==
    \E t \in TaskRefs, u \in TaskRefs :
       /\ task_objs[u].status = "cancelling"
       /\ task_objs[u].by = "debat_start"
       /\ task_objs[u].pc = "sleep"
       /\ task_objs[t].status = "active"
       /\ debate_tasks[task_objs[t].channel_id] = t
       /\ task_objs[u].channel_id = task_objs[t].channel_id
       /\ Len(task_objs[t].log) >= 1

\* C3: each channel has at most one runner task alive
OneRunnerPerChannel ==
    \A ch \in Channels :
       Cardinality({t \in TaskRefs :
                       /\ TaskAlive(task_objs[t])
                       /\ ChannelOf(debate_objs, task_objs[t]) = ch}) <= 1

\* two runner tasks of one channel exist at once, the earlier one cancelled
\* by debat_start and the later one alive
OneRunnerPerChannelWitness ==
    \E t \in TaskRefs, u \in TaskRefs :
       /\ TaskAlive(task_objs[t])
       /\ task_objs[u].status = "cancelling"
       /\ task_objs[u].by = "debat_start"
       /\ ChannelOf(debate_objs, task_objs[u]) = ChannelOf(debate_objs, task_objs[t])
       /\ debate_objs[task_objs[t].session].running

\* C4: the step that removes a channel's session clears its running flag and
\* leaves the channel's runner task not alive; a cancelled task announces
\* nothing, reaches no other await and is never alive again
StopSilencesRunner ==
    [][/\ \A ch \in Channels :
             (ch \in DOMAIN debate_sessions /\ ch \notin DOMAIN debate_sessions') =>
                /\ ~debate_objs'[debate_sessions[ch]].running
                /\ ch \in DOMAIN debate_tasks =>
                      /\ debate_tasks'[ch] = debate_tasks[ch]
                      /\ ~TaskAlive(task_objs'[debate_tasks[ch]])
       /\ \A t \in TaskRefs :
             task_objs[t].status = "cancelling" =>
                /\ task_objs'[t].status \in {"cancelling", "done", "free"}
                /\ task_objs'[t].log = <<>>
                /\ task_objs'[t].pc \in {task_objs[t].pc, "end"}
      ]_vars

\* debat_stop has hit a runner in its wait between two turns: the task is
\* cancelled, its session is out of the registry and no session is running
StopSilencesRunnerWitness ==
    \E t \in TaskRefs :
       /\ task_objs[t].status = "cancelling"
       /\ task_objs[t].by = "debat_stop"
       /\ task_objs[t].pc = "sleep"
       /\ task_objs[t].channel_id \notin DOMAIN debate_sessions
       /\ debate_tasks[task_objs[t].channel_id] = t
       /\ \A sid \in SessionRefs : ~debate_objs[sid].running

\* C5, as stated: every alive runner task drives the session registered for
\* its channel
RunnerDrivesRegisteredSession ==
    \A t \in TaskRefs :
       TaskAlive(task_objs[t]) =>
          /\ ChannelOf(debate_objs, task_objs[t]) \in DOMAIN debate_sessions
          /\ debate_sessions[ChannelOf(debate_objs, task_objs[t])] = task_objs[t].session

(***************************************************************************)
(* Mini-game properties                                                    *)
(***************************************************************************)
StartOps == {"tebak_kata", "tebak_gambar", "trivia", "sambung_kata"}
GuessOps == {"jawab_kata", "jawab_gambar", "jawab_trivia"}

\* the registry a command works on, before and after the step
ActiveOf(op) ==
    IF op \in {"tebak_kata", "jawab_kata"} THEN tebak_kata_active
    ELSE IF op \in {"tebak_gambar", "jawab_gambar"} THEN tebak_gambar_active
    ELSE IF op \in {"trivia", "jawab_trivia"} THEN trivia_active
    ELSE sambung_kata_active

ActiveOfNext(op) ==
    IF op \in {"tebak_kata", "jawab_kata"} THEN tebak_kata_active'
    ELSE IF op \in {"tebak_gambar", "jawab_gambar"} THEN tebak_gambar_active'
    ELSE IF op \in {"trivia", "jawab_trivia"} THEN trivia_active'
    ELSE sambung_kata_active'

RewardOf(op) ==
    IF op = "jawab_kata" THEN KataReward
    ELSE IF op = "jawab_gambar" THEN GambarReward
    ELSE TriviaReward

\* this step is a start command that stores its session in channel ch while
\* the channel has a session of that kind.  tebak_kata and tebak_gambar
\* store after their prompt send has returned: the step that issues the
\* prompt and the one in which the send raises do not reach the store
StartsOnActive(op, ch) ==
    /\ resp'.op = op
    /\ ~(/\ op \in {"tebak_kata", "tebak_gambar"}
         /\ resp'.result \in {"prompt", "send_failed"})
    /\ resp'.ch = ch
    /\ ch \in DOMAIN ActiveOf(op)

\* C6: a start command on a channel that has a session of that kind answers
\* AlreadyActive and leaves the session's state unchanged
StartOnActiveRefused ==
    [][\A op \in StartOps, ch \in Channels :
          StartsOnActive(op, ch) =>
             /\ resp'.result = "already_active"
             /\ ActiveOfNext(op) = ActiveOf(op)
      ]_vars

\* C7: in a guess handler of the word, image or trivia game the ledger changes
\* exactly when the session is removed, both in the one step of the correct
\* guess: the guesser gains the reward, nobody else's balance moves, and a
\* guess that finds no session or is wrong changes nothing
GuessRewardAtomic ==
    [][\A op \in GuessOps :
          resp'.op = op =>
             /\ (game_data' # game_data) <=> (ActiveOfNext(op) # ActiveOf(op))
             /\ (resp'.result = "correct") <=> (ActiveOfNext(op) # ActiveOf(op))
             /\ resp'.result = "correct" =>
                   /\ resp'.ch \in DOMAIN ActiveOf(op)
                   /\ ActiveOfNext(op) = Del(ActiveOf(op), resp'.ch)
                   /\ Balance(game_data', resp'.user)
                         = Balance(game_data, resp'.user) + RewardOf(op)
                   /\ \A u \in Users \ {resp'.user} :
                         Balance(game_data', u) = Balance(game_data, u)
             /\ \A o \in GuessOps : ActiveOf(o) # ActiveOf(op) =>
                   ActiveOfNext(o) = ActiveOf(o)
      ]_vars

\* a correct trivia answer: the session is gone and the reward is in the
\* guesser's balance
GuessRewardAtomicWitness ==
    /\ resp.op = "jawab_trivia"
    /\ resp.result = "correct"
    /\ resp.ch \notin DOMAIN trivia_active
    /\ Balance(game_data, resp.user) = TriviaReward
    /\ \E u \in Players \ {resp.user} : Balance(game_data, u) = KataReward

(***************************************************************************)
(* Ledger properties                                                       *)
(***************************************************************************)

\* C8: a transfer debits and credits the same amount in one step: the two
\* balances together are what they were before the call, the sender's balance
\* is not negative, and no other account changes; the state that follows the
\* call never has only the debit or only the credit applied.
TransferConserves ==
    resp.op = "transfer_points" =>
        LET b == resp.before
            f == resp.from
            t == resp.to
        IN  /\ Balance(game_data, f) + Balance(game_data, t)
                   = Balance(b, f) + Balance(b, t)
            /\ Balance(game_data, f) >= 0
            /\ \A u \in Users \ {f, t} :
                   /\ Balance(game_data, u) = Balance(b, u)
                   /\ (u \in DOMAIN game_data.points) = (u \in DOMAIN b.points)
            /\ f # t => /\ Balance(game_data, f) = Balance(b, f) - resp.ret
                        /\ Balance(game_data, t) = Balance(b, t) + resp.ret

\* a transfer of more than the sender owns, between two accounts, a third
\* account holding points
TransferConservesWitness ==
    /\ resp.op = "transfer_points"
    /\ resp.from # resp.to
    /\ Balance(resp.before, resp.from) > 0
    /\ resp.amount > Balance(resp.before, resp.from)
    /\ Balance(game_data, resp.to) > Balance(resp.before, resp.to)
    /\ \E u \in Users \ {resp.from, resp.to} : Balance(game_data, u) > 0

\* C9 as stated: for every integer amount the returned amount is at most
\* min(amount, balance of the sender before the call).
TransferReturnAtMostRequested ==
    resp.op = "transfer_points" =>
        resp.ret <= Min(resp.amount, Balance(resp.before, resp.from))

\* C9, amended: the returned amount is min(max(0, amount), balance of the
\* sender before the call), hence 0 for a negative amount, and it is exactly
\* what left the sender and reached the receiver.
TransferReturnsClamped ==
    resp.op = "transfer_points" =>
        LET b == resp.before
            f == resp.from
            t == resp.to
        IN  /\ resp.ret = Min(Max(0, resp.amount), Balance(b, f))
            /\ resp.amount >= 0 => resp.ret <= Min(resp.amount, Balance(b, f))
            /\ f # t => /\ Balance(game_data, f) = Balance(b, f) - resp.ret
                        /\ Balance(game_data, t) = Balance(b, t) + resp.ret
            /\ f = t => Balance(game_data, f) = Balance(b, f)

\* a transfer of a negative amount from an account that holds points
TransferReturnsClampedWitness ==
    /\ resp.op = "transfer_points"
    /\ resp.amount < 0
    /\ resp.from # resp.to
    /\ Balance(resp.before, resp.from) > 0
    /\ resp.ret = 0

\* C10: AddPoints sets the balance to max(0, old + delta) and returns it; an
\* unseen account counts as 0; balance 30 with delta -1000 gives 0.
AddPointsClamps ==
    resp.op = "add_points" =>
        LET b   == resp.before
            u   == resp.user
            old == IF u \in DOMAIN b.points THEN b.points[u] ELSE 0
        IN  /\ u \in DOMAIN game_data.points
            /\ game_data.points[u] = Max(0, old + resp.amount)
            /\ resp.ret = game_data.points[u]
            /\ (old = 30 /\ resp.amount = -1000) => resp.ret = 0
            /\ \A v \in Users \ {u} : Balance(game_data, v) = Balance(b, v)

\* AddPoints(u, -1000) on a balance of 30
AddPointsClampsWitness ==
    /\ resp.op = "add_points"
    /\ resp.user \in DOMAIN resp.before.points
    /\ resp.before.points[resp.user] = 30
    /\ resp.amount = -1000
    /\ resp.ret = 0

\* AddPoints on an account the ledger has not seen
AddPointsUnseenWitness ==
    /\ resp.op = "add_points"
    /\ resp.user \notin DOMAIN resp.before.points
    /\ resp.amount = 10
    /\ resp.ret = 10

\* C11: from a ledger of non-negative balances, after any sequence of
\* GetBalance, AddPoints, Transfer, heists and game rewards every account's
\* balance is a non-negative integer
BalancesNonNegative ==
    \A u \in DOMAIN game_data.points : game_data.points[u] \in Nat

\* a heist has just been made by a member who now holds more than the stake,
\* and the other member's account is at the floor
BalancesNonNegativeWitness ==
    \E a \in Members, t \in Members :
       /\ a # t
       /\ a \in DOMAIN game_data.cooldowns
       /\ STR_heist \in DOMAIN game_data.cooldowns[a]
       /\ game_data.cooldowns[a][STR_heist] = now + HeistCooldown
       /\ now > 0
       /\ t \in DOMAIN game_data.points
       /\ game_data.points[t] = 0
       /\ game_data.points[a] > HeistStake

(***************************************************************************)
(* Cooldown properties                                                     *)
(***************************************************************************)
IsSet(gd, u, k) == u \in DOMAIN gd.cooldowns /\ k \in DOMAIN gd.cooldowns[u]
Expiry(gd, u, k) == IF IsSet(gd, u, k) THEN gd.cooldowns[u][k] ELSE 0

\* C12: SetCooldown(user, key, d) at time t stores t + d, nothing but a
\* SetCooldown for that user and key changes what is stored, the clock does
\* not go back, and CooldownRemaining read at time t' returns
\* max(0, stored - t'): never negative, 0 from the expiry on, and 0 for a key
\* that was never set
CooldownCountsDown ==
    [][/\ now' >= now
       /\ \A u \in Members, k \in CooldownKeys :
             \/ /\ IsSet(game_data', u, k) = IsSet(game_data, u, k)
                /\ Expiry(game_data', u, k) = Expiry(game_data, u, k)
             \/ /\ resp'.op = "set_cooldown"
                /\ resp'.user = u /\ resp'.key = k
       /\ (resp'.op = "set_cooldown" /\ now' = now) =>
             /\ resp'.at = now
             /\ IsSet(game_data', resp'.user, resp'.key)
             /\ Expiry(game_data', resp'.user, resp'.key) = now + resp'.seconds
       /\ resp'.op = "cooldown_remaining" =>
             LET e == Expiry(game_data', resp'.user, resp'.key)
             IN  /\ resp'.at <= now'
                 /\ resp'.ret = Max(0, e - resp'.at)
                 /\ resp'.ret >= 0
                 /\ resp'.at >= e => resp'.ret = 0
                 /\ ~IsSet(game_data', resp'.user, resp'.key) => resp'.ret = 0
      ]_vars

\* a cooldown set after the start is read before its expiry, with part of it
\* elapsed
CooldownCountsDownWitness ==
    /\ resp.op = "cooldown_remaining"
    /\ resp.at = now
    /\ IsSet(game_data, resp.user, resp.key)
    /\ resp.ret = 60
    /\ Expiry(game_data, resp.user, resp.key) = now + 60
    /\ now >= 120

(***************************************************************************)
(* Card properties                                                         *)
(***************************************************************************)
\* the value of a hand with every ace as 11
RECURSIVE HighTotal(_)
HighTotal(cards) ==
    IF cards = <<>> THEN 0 ELSE CardValue(Head(cards)) + HighTotal(Tail(cards))

NumAces(cards) == Cardinality({i \in 1..Len(cards) : cards[i] = "A"})

\* how many aces must count as 1: the fewest that bring the hand to 21 or
\* less, all of them if none does
Reductions(cards) ==
    LET enough == {k \in 0..NumAces(cards) : HighTotal(cards) - 10 * k <= 21}
    IN  IF enough = {} THEN NumAces(cards)
        ELSE CHOOSE k \in enough : \A j \in enough : k <= j

Returned(fn) == probe.fn = fn /\ probe.state = "returned"

\* C13, as stated: is_soft is true exactly when an ace of the hand is still
\* counted as 11 after the adjustment
SoftIffAceCountedEleven ==
    Returned("calculate_hand_value") =>
        (probe.ret.is_soft = (NumAces(probe.cards) - Reductions(probe.cards) > 0))

\* C14: the total is the hand with every ace as 11 less 10 for each ace that
\* had to count as 1; it is above 21 only if no ace is left at 11, and no ace
\* was reduced while the total was at most 21
HandTotalExhaustive ==
    Returned("calculate_hand_value") =>
        LET k    == Reductions(probe.cards)
            high == HighTotal(probe.cards)
        IN  /\ probe.ret.total = high - 10 * k
            /\ probe.ret.aces = NumAces(probe.cards) - k
            /\ probe.ret.total > 21 => probe.ret.aces = 0
            /\ k > 0 => high - 10 * (k - 1) > 21

\* a hand of several aces of which some, not all, were reduced
HandTotalExhaustiveWitness ==
    /\ Returned("calculate_hand_value")
    /\ NumAces(probe.cards) >= 3
    /\ probe.ret.aces = 1
    /\ probe.ret.total = 21

\* the blackjack value of a hand, from the definition
ValueOf(cards) == HighTotal(cards) - 10 * Reductions(cards)

\* a hand in which an ace counts as 11
IsSoftHand(cards) == NumAces(cards) - Reductions(cards) > 0

\* the dealer has played after a stand
Stood == bj # NoGame /\ bj.result \in StandResults

\* C15, as stated: the dealer stops only at a total above 17 or at a 17 that
\* is not soft, so a dealer that has played never holds a soft 17
DealerStopsPerPolicy ==
    Stood =>
        \/ ValueOf(bj.dealer_hand) > 17
        \/ ValueOf(bj.dealer_hand) = 17 /\ ~IsSoftHand(bj.dealer_hand)

\* the player's stand is the last thing that happened to the round
JustStood ==
    /\ bj # NoGame
    /\ resp.op = "stand_button"
    /\ resp.user = bj.player_id

\* C16: once the player has stood and the dealer has played, the round is
\* over and the outcome is: won if the dealer is above 21 or the player is
\* above the dealer, lost if the player is below a dealer of at most 21, push
\* if the totals are equal
StandOutcome ==
    JustStood =>
        LET p == ValueOf(bj.player_hand)
            d == ValueOf(bj.dealer_hand)
        IN  /\ bj.game_over
            /\ d >= 17
            /\ bj.result \in StandResults
            /\ (d > 21 \/ p > d) <=> bj.result \in {"dealer_bust", "win"}
            /\ (d <= 21 /\ p < d) <=> bj.result = "lose"
            /\ (d <= 21 /\ p = d) <=> bj.result = "push"

\* the dealer drew and went over 21 against a player who holds less
StandOutcomeWitness ==
    /\ JustStood
    /\ Len(bj.dealer_hand) >= 3
    /\ ValueOf(bj.dealer_hand) > 21
    /\ ValueOf(bj.player_hand) < 17
    /\ bj.result = "dealer_bust"

IsNatural(cards) == Len(cards) = 2 /\ ValueOf(cards) = 21

\* C17: a round dealt with a natural blackjack on either side is over at
\* once with a blackjack outcome and gets no HIT or STAND button, and no
\* card is drawn in it afterwards; every other round starts open
NaturalEndsRound ==
    [][/\ (bj = NoGame /\ bj' # NoGame) =>
             /\ Len(bj'.player_hand) = 2 /\ Len(bj'.dealer_hand) = 2
             /\ IsNatural(bj'.player_hand) =>
                   /\ bj'.game_over /\ bj'.view = "none"
                   /\ bj'.result = "blackjack"
             /\ (~IsNatural(bj'.player_hand) /\ IsNatural(bj'.dealer_hand)) =>
                   /\ bj'.game_over /\ bj'.view = "none"
                   /\ bj'.result = "dealer_blackjack"
             /\ (~IsNatural(bj'.player_hand) /\ ~IsNatural(bj'.dealer_hand)) =>
                   /\ ~bj'.game_over /\ bj'.view = "open"
                   /\ bj'.result = "none"
       /\ (bj # NoGame /\ bj.view = "none") => bj' \in {bj, NoGame}
       /\ (bj # NoGame /\ bj' # NoGame /\ bj' # bj) => bj.view = "open"
      ]_vars

\* the dealer was dealt a natural blackjack, the player was not
NaturalEndsRoundWitness ==
    /\ bj # NoGame
    /\ bj.view = "none"
    /\ bj.result = "dealer_blackjack"
    /\ ~IsNatural(bj.player_hand)
    /\ DeckLen(bj.deck) = 48

\* the QQ table: 2 to 9 at face value, 10 and the court cards 0, the ace 1
QQTable == [r \in Ranks |->
              CASE r = "2" -> 2 [] r = "3" -> 3 [] r = "4" -> 4 [] r = "5" -> 5
                [] r = "6" -> 6 [] r = "7" -> 7 [] r = "8" -> 8 [] r = "9" -> 9
                [] r = "A" -> 1 [] OTHER -> 0]

QQSum(cards) == QQTable[cards[1]] + QQTable[cards[2]] + QQTable[cards[3]]

\* C18: a QQ round gives each side exactly 3 cards and draws no more; a
\* hand's value is the sum of its cards by the QQ table modulo 10, in 0..9;
\* the strictly higher value wins and equal values tie
QQRound ==
    [][/\ qq' # NoGame =>
             /\ Len(qq'.player_hand) = 3 /\ Len(qq'.dealer_hand) = 3
             /\ DeckLen(qq'.deck) = DeckLen(Deck(1)) - 6
             /\ qq'.player_value = QQSum(qq'.player_hand) % 10
             /\ qq'.dealer_value = QQSum(qq'.dealer_hand) % 10
             /\ qq'.player_value \in 0..9 /\ qq'.dealer_value \in 0..9
             /\ qq'.result = "win" <=> qq'.player_value > qq'.dealer_value
             /\ qq'.result = "lose" <=> qq'.player_value < qq'.dealer_value
             /\ qq'.result = "tie" <=> qq'.player_value = qq'.dealer_value
       /\ qq # NoGame => qq' \in {qq, NoGame}
      ]_vars

\* a tie between two different hands, the player's sum above 9
QQRoundWitness ==
    /\ qq # NoGame
    /\ qq.result = "tie"
    /\ qq.player_hand # qq.dealer_hand
    /\ QQSum(qq.player_hand) >= 10
    /\ QQSum(qq.dealer_hand) < 10

\* C19: every draw returns a card of a deck that is not empty; a deck of
\* fewer than 10 cards is first replaced by a full deck of 52; after every
\* draw between 9 and 51 cards remain
DrawKeepsDeck ==
    [][probe'.draws = probe.draws + 1 =>
          LET before == DeckLen(probe.cards)
              popped == IF before < 10 THEN Deck(1) ELSE probe.cards
          IN  /\ DeckLen(popped) > 0
              /\ probe'.ret \in Ranks
              /\ popped[probe'.ret] > 0
              /\ probe'.cards = [popped EXCEPT ![probe'.ret] = @ - 1]
              /\ before < 10 => DeckLen(popped) = 52
              /\ DeckLen(probe'.cards) = DeckLen(popped) - 1
              /\ DeckLen(probe'.cards) \in 9..51
      ]_vars

\* a single deck drawn down to 9 cards has been replaced and drawn from
DrawKeepsDeckWitness ==
    /\ probe.fn = "Deck.draw"
    /\ probe.num_decks = 1
    /\ probe.draws = 44
    /\ DeckLen(probe.cards) = 51

(***************************************************************************)
(* Puzzle properties                                                       *)
(***************************************************************************)
\* how often the character c occurs in w
Occurrences(w, c) == Cardinality({i \in 1..Len(w) : w[i] = c})

CharsOf(w) == {w[i] : i \in 1..Len(w)}

\* C20: whichever shuffles are drawn, what shuffle_word returns has the
\* length of the word and every character as often as the word has it
ScrambleIsPermutation ==
    Returned("shuffle_word") =>
        /\ Len(probe.ret) = Len(probe.word)
        /\ \A c \in CharsOf(probe.word) \cup CharsOf(probe.ret) :
              Occurrences(probe.ret, c) = Occurrences(probe.word, c)

\* a word with a letter twice comes back in another order, after shuffles
\* that left it as it was
ScrambleIsPermutationWitness ==
    /\ Returned("shuffle_word")
    /\ probe.word = W_pizza
    /\ probe.ret # probe.word
    /\ probe.tries >= 2

\* C21: shuffle_word returns the word itself, character for character, when
\* the word has fewer than 2 characters or when all ten shuffles left it
\* equal to the word without regard to case; otherwise it returns, after at
\* most ten shuffles, the first one that differs without regard to case
ScrambleFirstDifferingOrWord ==
    Returned("shuffle_word") =>
        /\ probe.tries <= ShuffleTries
        /\ Len(probe.word) < 2 => (probe.ret = probe.word /\ probe.tries = 0)
        /\ Lower(probe.ret) = Lower(probe.word) => probe.ret = probe.word
        /\ Lower(probe.ret) # Lower(probe.word) => probe.ret = probe.chars

(***************************************************************************)
(* Word chain properties                                                   *)
(***************************************************************************)
\* the word as the chain takes it: lower case, letters only
Normalized(w) == clean_word(w)

\* the three rules of the chain for the word w in the session state
LongEnough(w)      == Len(Normalized(w)) >= MinChainLen
NotUsed(state, w)  == Normalized(w) \notin state.used
Continues(state, w) ==
    /\ Len(Normalized(w)) > 0
    /\ Normalized(w)[1] = state.last[Len(state.last)]

\* C22: a word sent to a channel with a word chain is accepted exactly when
\* its normalized form has at least 3 letters, is not in the used set and
\* starts with the last letter of the last word; an accepted word becomes
\* the last word and joins the used set
ChainAcceptsIff ==
    [][\A u \in Players, w \in KataInputs :
          (1 \in DOMAIN sambung_kata_active /\ Kata(1, u, w)) =>
             LET state == sambung_kata_active[1]
             IN  /\ (resp'.result = "valid") <=>
                       (LongEnough(w) /\ NotUsed(state, w) /\ Continues(state, w))
                 /\ resp'.result = "valid" =>
                       /\ 1 \in DOMAIN sambung_kata_active'
                       /\ sambung_kata_active'[1].last = Normalized(w)
                       /\ sambung_kata_active'[1].used
                             = state.used \cup {Normalized(w)}
      ]_vars

\* the chain has reached "kata" and then taken "ayam"
ChainAcceptsIffWitness ==
    /\ resp.op = "kata"
    /\ resp.result = "valid"
    /\ 1 \in DOMAIN sambung_kata_active
    /\ sambung_kata_active[1].last = W_ayam
    /\ W_kata \in sambung_kata_active[1].used

(***************************************************************************)
(* Properties of refused input                                             *)
(***************************************************************************)
\* the answer names a rule of the chain that the word w breaks in the
\* session state
NamesBrokenRule(result, state, w) ==
    /\ result \in {"too_short", "used", "wrong_letter"}
    /\ result = "too_short" => ~LongEnough(w)
    /\ result = "used" => ~NotUsed(state, w)
    /\ result = "wrong_letter" => ~Continues(state, w)

\* C23: an input that is refused changes nothing and is answered with the
\* rule it breaks: a chain word that is too short, used or starts with the
\* wrong letter leaves the chain and the ledger as they are; a !debat_join
\* with a side other than pro and kontra leaves both rosters as they are; a
\* trivia choice outside A-D leaves the trivia session and the ledger as
\* they are
RefusedInputChangesNothing ==
    [][/\ \A w \in ChainWords :
             (/\ 1 \in DOMAIN sambung_kata_active
              /\ Kata(1, 1, w)
              /\ ~(/\ LongEnough(w)
                   /\ NotUsed(sambung_kata_active[1], w)
                   /\ Continues(sambung_kata_active[1], w))) =>
                /\ NamesBrokenRule(resp'.result, sambung_kata_active[1], w)
                /\ UNCHANGED <<ledgerVars, gameVars, debateVars, cardVars>>
       /\ \A j \in Debaters :
             (/\ 1 \in DOMAIN debate_sessions
              /\ DebatJoin(1, j[1], j[2])
              /\ Strip(Lower(j[2])) \notin {STR_pro, STR_kontra}) =>
                /\ resp'.result = "bad_side"
                /\ debate_objs'[debate_sessions[1]].pro
                      = debate_objs[debate_sessions[1]].pro
                /\ debate_objs'[debate_sessions[1]].kontra
                      = debate_objs[debate_sessions[1]].kontra
                /\ UNCHANGED <<ledgerVars, gameVars, debateVars, cardVars>>
       /\ \A c \in TriviaPicks :
             (/\ 1 \in DOMAIN trivia_active
              /\ JawabTrivia(1, 1, c)
              /\ Upper(Strip(c)) \notin TriviaOptions) =>
                /\ resp'.result = "bad_option"
                /\ UNCHANGED <<ledgerVars, gameVars, debateVars, cardVars>>
      ]_vars

\* a !debat_join without a valid side was refused while both rosters, a
\* chain, a trivia question and a balance were there to be changed
RefusedInputChangesNothingWitness ==
    /\ resp.op = "debat_join"
    /\ resp.result = "bad_side"
    /\ 1 \in DOMAIN debate_sessions
    /\ debate_objs[debate_sessions[1]].pro = <<1>>
    /\ debate_objs[debate_sessions[1]].kontra = <<2>>
    /\ 1 \in DOMAIN sambung_kata_active
    /\ Cardinality(sambung_kata_active[1].used) >= 2
    /\ 1 \in DOMAIN trivia_active
    /\ Balance(game_data, 1) > 0

(***************************************************************************)
(* Debate command properties                                               *)
(***************************************************************************)
\* the session registered for channel 1
Registered == debate_objs[debate_sessions[1]]

\* task t is created in this step
Attached(t) == task_objs[t].status = "free" /\ task_objs'[t].status = "active"

\* C24: a runner task is created only by a debat_start on a session whose
\* PRO and KONTRA rosters both have a member; a debat_start on a session
\* that is not running and has an empty roster is answered with the empty
\* side message and creates no task, cancels no task and leaves the session
\* as it is, its running flag false
StartNeedsBothSides ==
    [][/\ \A t \in TaskRefs :
             Attached(t) =>
                /\ resp'.op = "debat_start"
                /\ resp'.result = "started"
                /\ debate_objs[task_objs'[t].session].pro # <<>>
                /\ debate_objs[task_objs'[t].session].kontra # <<>>
       /\ (/\ 1 \in DOMAIN debate_sessions
           /\ DebatStart(1)
           /\ ~Registered.running
           /\ (Registered.pro = <<>> \/ Registered.kontra = <<>>)) =>
              /\ resp'.result = "empty_side"
              /\ UNCHANGED debateVars
              /\ ~debate_objs'[debate_sessions'[1]].running
      ]_vars

\* debat_start was refused for a session with an empty roster while the
\* runner of the session it replaced is alive: that runner is not cancelled
StartNeedsBothSidesWitness ==
    /\ resp.op = "debat_start"
    /\ resp.result = "empty_side"
    /\ 1 \in DOMAIN debate_sessions
    /\ Registered.pro = <<1>>
    /\ Registered.kontra = <<>>
    /\ ~Registered.running
    /\ 1 \in DOMAIN debate_tasks
    /\ TaskAlive(task_objs[debate_tasks[1]])
    /\ task_objs[debate_tasks[1]].session # debate_sessions[1]

\* the runner of channel 1's session has announced every turn and returned
\* in the step before
FinishedNaturally ==
    /\ resp.op = "debate_runner"
    /\ resp.result = "returned"
    /\ 1 \in DOMAIN debate_sessions

\* C25: a session whose debate has finished naturally is not run again by
\* debat_start: the command attaches no runner to it
FinishedStaysFinished ==
    [][(FinishedNaturally /\ resp'.op = "debat_start") =>
          /\ resp'.result # "started"
          /\ \A t \in TaskRefs : ~Attached(t)
      ]_vars

\* task t has set its session's running flag and has turns to announce
InRun(t) ==
    /\ TaskAlive(task_objs[t])
    /\ task_objs[t].pc \in {"send_open", "send_turn", "sleep"}

\* task t has announced every turn, cleared the running flag and is posting
\* the completion message
RunComplete(t) ==
    /\ TaskAlive(task_objs[t])
    /\ task_objs[t].pc = "send_done"
    /\ task_objs[t].log = Expected(debate_objs[task_objs[t].session])
    /\ ~debate_objs[task_objs[t].session].running

\* the run of task t was stopped: the task was cancelled by debat_stop or by
\* a later debat_start, or it returned on finding the running flag cleared
RunStopped(t) ==
    \/ task_objs[t].status = "cancelling"
    \/ /\ resp.op = "debate_runner"
       /\ resp.task = t
       /\ resp.result = "flag_cleared"

\* the session task t runs was replaced: it is no longer the one registered
\* for its channel
RunReplaced(t) ==
    /\ TaskPending(task_objs[t])
    /\ \/ task_objs[t].channel_id \notin DOMAIN debate_sessions
       \/ debate_sessions[task_objs[t].channel_id] # task_objs[t].session

\* the session of channel 1 leaves the registry only by debat_stop (or is
\* replaced by debat_mulai), and as long as it is registered debat_ringkas
\* answers with its rosters, its counts and its status
RegisteredUntilStopped ==
    [][/\ (/\ 1 \in DOMAIN debate_sessions
           /\ (\/ 1 \notin DOMAIN debate_sessions'
               \/ debate_sessions'[1] # debate_sessions[1])) =>
              resp'.op \in {"debat_stop", "debat_mulai"}
       /\ (resp'.op = "debat_ringkas" /\ 1 \in DOMAIN debate_sessions) =>
              /\ resp'.result = "summary"
              /\ resp'.pro = Registered.pro
              /\ resp'.kontra = Registered.kontra
              /\ resp'.pro_count + resp'.kontra_count = Len(Registered.points)
              /\ resp'.status = "Berjalan" <=> Registered.running
      ]_vars

\* C26: a running debate that is not stopped or replaced goes on to announce
\* all its turns, clear the running flag and post the completion message,
\* and its session then stays registered and answers the summary
RunCompletesAndStays ==
    /\ \A t \in TaskRefs :
          InRun(t) ~> (RunComplete(t) \/ RunStopped(t) \/ RunReplaced(t))
    /\ RegisteredUntilStopped

\* C27: while the running flag of the registered session is set, debat_join
\* is answered with the refusal for a running debate and changes nothing;
\* the rosters of a session do not change from one step to the next of a
\* runner that is announcing its turns and still holds the session afterwards
RostersFixedDuringRun ==
    [][/\ \A j \in Players \X {u_pro, u_kontra} :
             (/\ 1 \in DOMAIN debate_sessions
              /\ Registered.running
              /\ DebatJoin(1, j[1], j[2])) =>
                /\ resp'.result = "running"
                /\ UNCHANGED debateVars
       /\ \A t \in TaskRefs :
             (InRun(t) /\ task_objs'[t].session = task_objs[t].session) =>
                /\ debate_objs'[task_objs[t].session].pro
                      = debate_objs[task_objs[t].session].pro
                /\ debate_objs'[task_objs[t].session].kontra
                      = debate_objs[task_objs[t].session].kontra
      ]_vars

\* a member of the PRO roster asked for the other side while the runner was
\* sleeping between two turns, and was refused
RostersFixedDuringRunWitness ==
    /\ resp.op = "debat_join"
    /\ resp.result = "running"
    /\ 1 \in DOMAIN debate_sessions
    /\ Registered.running
    /\ Len(Registered.pro) = 2
    /\ \E t \in TaskRefs :
          /\ InRun(t)
          /\ task_objs[t].pc = "sleep"
          /\ task_objs[t].session = debate_sessions[1]

\* the entries of a score log that carry the side name
RECURSIVE Tally(_, _)
Tally(points, name) ==
    IF points = <<>> THEN 0
    ELSE Tally(Tail(points), name) + (IF Head(points)[2] = name THEN 1 ELSE 0)

\* C28: debat_poin by a member of the PRO or KONTRA roster appends exactly
\* one entry (user, side) with the side the caller is on at that moment; by
\* a user on neither roster it is refused and the score log stays as it is;
\* the counts of the summary are the numbers of logged entries of each side,
\* and in every state they add up to the length of the score log
ScoreLogTallies ==
    /\ [][/\ \A u \in Players :
                (1 \in DOMAIN debate_sessions /\ DebatPoin(1, u)) =>
                   LET s  == Registered
                       s2 == debate_objs'[debate_sessions[1]]
                   IN  /\ InSeq(u, s.pro) =>
                            /\ resp'.result = "logged"
                            /\ s2.points = Append(s.points, <<u, "PRO">>)
                       /\ (~InSeq(u, s.pro) /\ InSeq(u, s.kontra)) =>
                            /\ resp'.result = "logged"
                            /\ s2.points = Append(s.points, <<u, "KONTRA">>)
                       /\ (~InSeq(u, s.pro) /\ ~InSeq(u, s.kontra)) =>
                            /\ resp'.result = "not_joined"
                            /\ UNCHANGED debateVars
                       /\ s2 = [s EXCEPT !.points = s2.points]
          /\ (resp'.op = "debat_ringkas" /\ resp'.result = "summary") =>
                /\ resp'.pro_count = Tally(Registered.points, "PRO")
                /\ resp'.kontra_count = Tally(Registered.points, "KONTRA")
         ]_vars
    /\ [](\A sid \in SessionRefs :
             Tally(debate_objs[sid].points, "PRO")
                + Tally(debate_objs[sid].points, "KONTRA")
             = Len(debate_objs[sid].points))

\* the PRO speaker logged a point, then the KONTRA speaker; the summary
\* counts one each
ScoreLogTalliesWitness ==
    /\ resp.op = "debat_ringkas"
    /\ resp.result = "summary"
    /\ resp.pro_count = 1
    /\ resp.kontra_count = 1
    /\ Registered.points = <<<<1, "PRO">>, <<2, "KONTRA">>>>

(***************************************************************************)
(* Persistence properties                                                  *)
(***************************************************************************)
\* the ledger file holds exactly the ledger gd
SnapshotOf(gd) == [kind |-> "json", data |-> gd]

\* no write failed in this step
NoWriteFailed == save_failures' = save_failures

\* C29: every ledger call that changes the ledger in memory, the creation of
\* an unseen account by a read included, has written a snapshot equal to the
\* ledger in memory when it returns, unless the write failed
ChangeIsPersisted ==
    [][(game_data' # game_data /\ NoWriteFailed) => disk' = SnapshotOf(game_data')]_vars

\* the write of this step failed
WriteFailed == save_failures' > save_failures

\* the ledger a mutating call leaves in memory, and the value it returns
Updated(r) ==
    CASE r.op = "add_points" -> add_points(game_data, r.user, r.amount)
      [] r.op = "transfer_points" -> transfer_points(game_data, r.from, r.to, r.amount)
      [] r.op = "set_cooldown" ->
            <<set_cooldown(game_data, r.user, r.key, r.seconds, now), 0>>

\* C30: when the write of add_points, transfer_points or set_cooldown fails,
\* the call still leaves the updated ledger in memory and returns its normal
\* result, the file is left without the update, and every later call works
\* on the ledger in memory
FailedWriteIsSwallowed ==
    [][/\ (WriteFailed /\ resp'.op \in {"add_points", "transfer_points", "set_cooldown"}) =>
             /\ game_data' = Updated(resp')[1]
             /\ resp'.op # "set_cooldown" => resp'.ret = Updated(resp')[2]
             /\ disk' \in {disk, [kind |-> "partial", data |-> EmptyLedger]}
       /\ resp'.op \in {"add_points", "transfer_points", "cooldown_remaining"} =>
             resp'.before = game_data
      ]_vars

\* a balance read after an add_points whose write failed at open: the file
\* was never written and the read returns the points added
FailedWriteIsSwallowedWitness ==
    /\ resp.op = "get_points"
    /\ resp.ret = 10
    /\ save_failures = 1
    /\ disk.kind = "missing"

\* the runner task t found no channel in the step before
NoChannel(t) ==
    /\ resp.op = "debate_runner"
    /\ resp.result = "no_channel"
    /\ resp.task = t

\* C31: a runner that cannot resolve its channel ends in its first step
\* without an exception and without a message, and leaves every session as
\* it is, the running flag of its own session false; a debat_start that
\* follows on that session, with both rosters filled, is accepted
UnresolvedChannelEndsRunner ==
    [][\A t \in TaskRefs :
          /\ (/\ TaskAlive(task_objs[t])
              /\ task_objs[t].pc = "start"
              /\ RunnerBegin(t, FALSE)) =>
                /\ resp'.result = "no_channel"
                /\ TaskDone(task_objs'[t]) \/ task_objs'[t] = FreedTask
                /\ task_objs'[t].log = <<>>
                /\ debate_sessions' = debate_sessions
                /\ \A ch \in DOMAIN debate_sessions :
                      debate_objs'[debate_sessions[ch]] = debate_objs[debate_sessions[ch]]
                /\ ~debate_objs[task_objs[t].session].running
                /\ ~debate_objs'[task_objs[t].session].running
          /\ (/\ NoChannel(t)
              /\ 1 \in DOMAIN debate_sessions
              /\ Registered.pro # <<>>
              /\ Registered.kontra # <<>>
              /\ DebatStart(1)) =>
                /\ resp'.result = "started"
                /\ \E u \in TaskRefs : Attached(u) \/
                      (task_objs'[u].pc = "start" /\ TaskAlive(task_objs'[u]))
      ]_vars

\* the runner of a registered session with both rosters filled found no
\* channel: its task is over and the session is not running
UnresolvedChannelEndsRunnerWitness ==
    /\ \E t \in TaskRefs : NoChannel(t) /\ debate_tasks[1] = t /\ TaskDone(task_objs[t])
    /\ 1 \in DOMAIN debate_sessions
    /\ Registered.pro = <<1>>
    /\ Registered.kontra = <<2>>
    /\ ~Registered.running

(***************************************************************************)
(* Independence of the session slots                                       *)
(***************************************************************************)
\* what a registry holds for channel ch
SlotOf(active, ch) == IF ch \in DOMAIN active THEN <<active[ch]>> ELSE <<>>

\* the debate of channel ch: its registered session with rosters, score log
\* and flag, its registered task, and every runner of the channel that still
\* exists, each with the session it works on
DebateSlot(sessions, objs, tasks, tobjs, ch) ==
    [session |-> IF ch \in DOMAIN sessions
                 THEN <<sessions[ch], objs[sessions[ch]]>> ELSE <<>>,
     task    |-> IF ch \in DOMAIN tasks
                 THEN <<tasks[ch], tobjs[tasks[ch]]>> ELSE <<>>,
     runners |-> {<<t, tobjs[t], objs[tobjs[t].session]>> :
                     t \in {x \in TaskRefs : /\ TaskPending(tobjs[x])
                                             /\ tobjs[x].channel_id = ch}}]

DebateSame(ch) ==
    DebateSlot(debate_sessions', debate_objs', debate_tasks', task_objs', ch)
       = DebateSlot(debate_sessions, debate_objs, debate_tasks, task_objs, ch)

ChainSame(ch)  == SlotOf(sambung_kata_active', ch) = SlotOf(sambung_kata_active, ch)
TriviaSame(ch) == SlotOf(trivia_active', ch) = SlotOf(trivia_active, ch)
KataSame(ch)   == SlotOf(tebak_kata_active', ch) = SlotOf(tebak_kata_active, ch)
GambarSame(ch) == SlotOf(tebak_gambar_active', ch) = SlotOf(tebak_gambar_active, ch)

\* the slots that this step changes
Changed ==
    {kc \in {"debate", "chain", "trivia", "kata", "gambar"} \X Channels :
        \/ kc[1] = "debate" /\ ~DebateSame(kc[2])
        \/ kc[1] = "chain" /\ ~ChainSame(kc[2])
        \/ kc[1] = "trivia" /\ ~TriviaSame(kc[2])
        \/ kc[1] = "kata" /\ ~KataSame(kc[2])
        \/ kc[1] = "gambar" /\ ~GambarSame(kc[2])}

\* this step is a debate command of channel ch or a step of one of its
\* runners
DebateStep(ch) ==
    \/ \E ts \in TurnSecondsInputs : DebatMulai(ch, ts, MinRounds)
    \/ \E u \in Players, side \in {u_pro, u_kontra} : DebatJoin(ch, u, side)
    \/ DebatStart(ch)
    \/ DebatStop(ch)
    \/ \E t \in TaskRefs :
          /\ task_objs[t].channel_id = ch
          /\ \/ \E ok \in BOOLEAN : RunnerBegin(t, ok)
             \/ RunnerSent(t)
             \/ RunnerSendFails(t)
             \/ RunnerWake(t)
             \/ RunnerCancelled(t)

\* this step is a command of kind k in channel ch
StepOf(k, ch) ==
    CASE k = "debate" -> DebateStep(ch)
      [] k = "chain"  -> SambungKata(ch, W_python) \/ SambungStop(ch)
      [] k = "trivia" -> Trivia(ch, Q_first) \/ JawabTrivia(ch, 1, <<"b">>)
      [] OTHER        -> FALSE

\* C32: a start, guess or stop of a game and a command or runner step of a
\* debate change no slot but their own: the session, rosters, score log and
\* runner tasks of a channel's debate change only in a debate command or
\* runner step of that channel, a game session only in a command of its
\* kind in its channel, and no such step changes two slots; only the clock
\* is shared by the sleeping runners of all channels
SlotsIndependent ==
    [][\/ LoopTick(MinTurnSeconds)
       \/ /\ Cardinality(Changed) <= 1
          /\ \A kc \in Changed : StepOf(kc[1], kc[2])
      ]_vars

\* both channels have a runner between two turns, channel 1 a word chain,
\* channel 2 a trivia question asked again after a rewarded answer
SlotsIndependentWitness ==
    /\ \A ch \in Channels :
          /\ ch \in DOMAIN debate_sessions
          /\ debate_objs[debate_sessions[ch]].running
          /\ ch \in DOMAIN debate_tasks
          /\ task_objs[debate_tasks[ch]].pc = "sleep"
    /\ 1 \in DOMAIN sambung_kata_active
    /\ 2 \in DOMAIN trivia_active
    /\ Balance(game_data, 1) = TriviaReward

(***************************************************************************)
(* A running session and its runner                                        *)
(***************************************************************************)
\* some runner task of the registered session has not ended
HasRunner ==
    \E t \in TaskRefs :
        /\ task_objs[t].status \in {"active", "cancelling"}
        /\ task_objs[t].session = debate_sessions[1]

\* C33: whenever the registered session of the channel has its running flag
\* set, a runner task of that session has not ended
RunningHasRunner ==
    (1 \in DOMAIN debate_sessions /\ Registered.running) => HasRunner

(***************************************************************************)
(* A blackjack round that is over                                          *)
(***************************************************************************)
\* C34: once a round is over, no click on HIT or STAND changes the player's
\* hand, the dealer's hand, the deck or the recorded result
OverRoundIsFrozen ==
    [][(bj # NoGame /\ bj.game_over /\ bj' # NoGame) =>
          /\ bj'.player_hand = bj.player_hand
          /\ bj'.dealer_hand = bj.dealer_hand
          /\ bj'.deck = bj.deck
          /\ bj'.result = bj.result
      ]_vars

(***************************************************************************)
(* The dealer's turn                                                       *)
(***************************************************************************)
\* cards is hand followed by cards drawn one at a time, each drawn while the
\* total was below 17
DrawnBelow17(hand, cards) ==
    /\ Len(cards) >= Len(hand)
    /\ SubSeq(cards, 1, Len(hand)) = hand
    /\ \A n \in Len(hand)..(Len(cards) - 1) : ValueOf(SubSeq(cards, 1, n)) < 17

\* C35: the dealer's turn ends whenever the player can stand; at its end the
\* dealer's total is at least 17, every card was drawn at a total below 17,
\* and a dealer who starts at 17 or more draws no card and leaves the deck
\* as it is
DealerStopsFrom17 ==
    [][/\ Clickable => DealerRuns(bj.dealer_hand, bj.deck, DealtRanks) # {}
       /\ (bj # NoGame /\ StandButton(bj.player_id)) =>
             /\ ValueOf(bj'.dealer_hand) >= 17
             /\ DrawnBelow17(bj.dealer_hand, bj'.dealer_hand)
             /\ ValueOf(bj.dealer_hand) >= 17 =>
                   /\ bj'.dealer_hand = bj.dealer_hand
                   /\ bj'.deck = bj.deck
      ]_vars

\* the player has stood and the dealer has drawn two cards, the first of
\* them at a total that one ace had already lowered
DealerStopsFrom17Witness ==
    /\ JustStood
    /\ bj.game_over
    /\ Len(bj.dealer_hand) = 4
    /\ ValueOf(SubSeq(bj.dealer_hand, 1, 2)) = 12
    /\ ValueOf(bj.dealer_hand) >= 17

(***************************************************************************)
(* The heist cooldown                                                      *)
(***************************************************************************)
\* the expiry stored for the heist cooldown of user u, 0 if there is none
HeistExpiry(gd, u) ==
    IF u \in DOMAIN gd.cooldowns /\ STR_heist \in DOMAIN gd.cooldowns[u]
    THEN gd.cooldowns[u][STR_heist]
    ELSE 0

\* this step is a heist of user u on another member
HeistBy(u) ==
    \E t \in Members \ {u}, ok \in HeistChance :
        \E a \in IF ok THEN StealAmounts ELSE PenaltyAmounts :
            Heist(u, t, FALSE, ok, a)

\* C36: a heist of a user whose heist cooldown has not expired changes no
\* balance, no cooldown and nothing on file; every other heist on another
\* member, won or lost, leaves the caller's cooldown at 120 seconds and the
\* other member's cooldown as it was, and it comes at least 120 seconds
\* after the caller's previous heist
HeistOncePerCooldown ==
    [][\A u \in Members :
          HeistBy(u) =>
             IF HeistExpiry(game_data, u) > now
             THEN /\ game_data' = game_data
                  /\ disk' = disk
                  /\ resp'.result = "cooldown"
             ELSE /\ resp'.result \in {"stolen", "fined"}
                  /\ HeistExpiry(game_data', u) - now = 120
                  /\ \A v \in Members \ {u} :
                        HeistExpiry(game_data', v) = HeistExpiry(game_data, v)
                  /\ HeistExpiry(game_data, u) > 0 =>
                        now - (HeistExpiry(game_data, u) - 120) >= 120
      ]_vars

\* user 1 has robbed at second 0 and has just paid the fine of a second
\* heist at second 120, the second at which the first cooldown expired
HeistOncePerCooldownWitness ==
    /\ resp.op = "heist" /\ resp.user = 1 /\ resp.result = "fined"
    /\ now = 120
    /\ HeistExpiry(resp.before, 1) = 120
    /\ HeistExpiry(game_data, 1) = 240

(***************************************************************************)
(* The rosters of a debate                                                 *)
(***************************************************************************)
\* the sequence q without x
Without(q, x) == SelectSeq(q, LAMBDA y : y # x)

\* no user stands twice in the sequence q
NoRepeat(q) == \A i \in 1..Len(q), k \in 1..Len(q) : q[i] = q[k] => i = k

\* C37: no user stands twice in the PRO and KONTRA rosters of a session
\* taken together; an accepted debat_join leaves the user last in the roster
\* of the side named and absent from the other roster, and keeps everybody
\* else in place
RostersHoldUsersOnce ==
    [][/\ \A sid \in SessionRefs :
             NoRepeat(debate_objs'[sid].pro \o debate_objs'[sid].kontra)
       /\ \A j \in Players \X {u_pro, u_kontra} :
             (/\ 1 \in DOMAIN debate_sessions
              /\ ~Registered.running
              /\ DebatJoin(1, j[1], j[2])) =>
                LET s     == Registered
                    after == debate_objs'[debate_sessions[1]]
                IN  /\ resp'.result = "joined"
                    /\ IF j[2] = u_pro
                       THEN /\ after.pro = Append(Without(s.pro, j[1]), j[1])
                            /\ after.kontra = Without(s.kontra, j[1])
                       ELSE /\ after.kontra = Append(Without(s.kontra, j[1]), j[1])
                            /\ after.pro = Without(s.pro, j[1])
      ]_vars

\* a join has been accepted and both users are in the PRO roster, user 1
\* behind user 2: the order after user 1, first of the two, joins PRO again
RostersHoldUsersOnceWitness ==
    /\ resp.op = "debat_join"
    /\ resp.result = "joined"
    /\ 1 \in DOMAIN debate_sessions
    /\ Registered.pro = <<2, 1>>
    /\ Registered.kontra = <<>>

(***************************************************************************)
(* The used set of a word chain                                            *)
(***************************************************************************)
\* this step starts or stops the chain of channel 1
ChainStartsOrStops ==
    \/ \E w \in WORD_BANK : SambungKata(1, w)
    \/ SambungStop(1)

\* C38: the last word of a word chain is in its used set; no step but a new
\* start or a stop takes a word out of the used set; and a word that is
\* accepted was not in the used set, which holds the seed and every word
\* accepted since, and is the one word the step adds to it
ChainUsedOnlyGrows ==
    [][/\ 1 \in DOMAIN sambung_kata_active' =>
             sambung_kata_active'[1].last \in sambung_kata_active'[1].used
       /\ (1 \in DOMAIN sambung_kata_active /\ ~ChainStartsOrStops) =>
             /\ 1 \in DOMAIN sambung_kata_active'
             /\ sambung_kata_active[1].used \subseteq sambung_kata_active'[1].used
       /\ \A u \in Players, w \in KataInputs :
             (/\ 1 \in DOMAIN sambung_kata_active
              /\ Kata(1, u, w)
              /\ sambung_kata_active' # sambung_kata_active) =>
                /\ Normalized(w) \notin sambung_kata_active[1].used
                /\ sambung_kata_active'[1].used \ sambung_kata_active[1].used
                      = {Normalized(w)}
      ]_vars

\* the chain started with "python" has taken "naik" and "kata", and the seed
\* sent again has been refused as used
ChainUsedOnlyGrowsWitness ==
    /\ resp.op = "kata"
    /\ resp.result = "used"
    /\ 1 \in DOMAIN sambung_kata_active
    /\ sambung_kata_active[1].used = {W_python, W_naik, W_kata}
    /\ sambung_kata_active[1].last = W_kata

(***************************************************************************)
(* Two natural blackjacks                                                  *)
(***************************************************************************)
\* C39: a round in which the player and the dealer both hold a natural
\* blackjack is over with the player's blackjack as its result, not a push
\* and not a win of the dealer
BothNaturalPlayerWins ==
    (bj # NoGame /\ IsNatural(bj.player_hand) /\ IsNatural(bj.dealer_hand)) =>
        /\ bj.game_over
        /\ bj.result = "blackjack"
        /\ bj.result \notin {"push", "lose", "dealer_blackjack"}

\* the deal gave an ace and a ten to each side
BothNaturalPlayerWinsWitness ==
    /\ resp.op = "blackjack"
    /\ bj # NoGame
    /\ IsNatural(bj.player_hand)
    /\ IsNatural(bj.dealer_hand)
    /\ bj.result = "blackjack"
    /\ DeckLen(bj.deck) = 48

=============================================================================
